---- MODULE Spec2Model ----
(***************************************************************************)
(* State-machine model of the per-stream runtime in server/stream.go:      *)
(* the ingest pipeline (processJetStreamMsg), the deduplication window     *)
(* (storeMsgId / purgeMsgIds), stream purge, the mirror delivery handler,  *)
(* the consumer registry and the internal send queue.                      *)
(*                                                                         *)
(* Time is counted in ticks of 25ms, so that minFire (50ms) is 2 ticks.    *)
(***************************************************************************)
EXTENDS Integers, Sequences, FiniteSets, TLC

\* ------------------------------------------------------------------ bounds
\* Publishes and deliveries arrive while the store's last sequence is below this.
MaxSeq == 2
\* The same for the stream of the deduplication window.
MaxDedupSeq == 3
\* Last wall-clock tick explored.
MaxTime == 4
\* Publishes and deliveries arrive while the cluster-failed counter is below this.
MaxClfs == 2
\* How many fields of an inbound message may differ from the plain message.
MaxFeatures == 2
\* Messages that may wait in the send queue when a handler starts.
MaxBacklog == 0
\* Deliveries arrive on the first MaxResets subscriptions of the mirror.
MaxResets == 2
\* Upstream sequences of a source run from 1 to MaxUpSeq.
MaxUpSeq == 5
\* Create requests sent for one upstream consumer, the first included.
MaxCreates == 4
\* The stream is told to lead and is updated while no subject has this many handlers.
MaxHandlers == 2
\* Messages proposed to the consensus group while the cluster sequence is below this.
MaxProposals == 3
\* Upstream sequences of the deliveries that may be on their way at a step-down or a stop.
MaxInFlight == 2
\* Free places a backed-up send queue may have when the stream is stopped.
MaxFree == 2
\* cfg.Duplicates of the modelled streams, in ticks.
DupWindow == 3

\* -------------------------------------------------------- program constants
\* const minFire = 50 * time.Millisecond, in ticks.
MinFire == 2
\* const msetSendQSize = 4096
msetSendQSize == 4096

\* ------------------------------------------------------------------ state
VARIABLES
    cfg,        \* mset.cfg (StreamConfig), fixed at creation
    lseq,       \* mset.lseq
    lmsgId,     \* mset.lmsgId
    clfs,       \* mset.clfs
    store,      \* mset.store, the storage engine's observable state
    ddmap,      \* mset.ddmap: id -> ddentry (a nil map is the empty map)
    ddarr,      \* mset.ddarr
    ddindex,    \* mset.ddindex
    ddcap,      \* cap(mset.ddarr)
    ddtmr,      \* mset.ddtmr: the tick it is due at, NoTimer when nil
    consumers,  \* mset.consumers
    numFilter,  \* mset.numFilter
    mirror,     \* mset.mirror (sourceInfo), .set = FALSE when nil
    sendq,      \* mset.sendq, the channel's buffered messages
    now,        \* time.Now()
    mu,         \* mset.mu
    pubs,       \* the publishes that overlap: where each goroutine is in the handler
    inbound,    \* the message the broker is handing to one of the stream's callbacks
    call,       \* the last handler run: its returned error and its effects in order
    accepted,   \* history: id -> tick of its last acceptance as a new message
                \*          since the last stream purge, Never if none
    node,       \* mset.node != nil: the stream has a consensus node
    leader,     \* mset.node.Leader()
    active,     \* mset.active
    subjects,   \* mset.cfg.Subjects
    csubs,      \* mset.client's subscriptions: subject -> handlers installed for it
    client,     \* mset.client != nil: the stream has not been stopped
    source,     \* mset.sources[name] (sourceInfo) of the stream's one source
    upstream,   \* the upstream consumer of the source and what it has delivered
    creates,    \* the goroutines started to await a consumer create response, in
                \* the order of their start, and how far each has come
    jsa,        \* jsa.streams: name -> the stream registered under it
    adds,       \* the addStream calls under way: where each caller is
    purging,    \* the purge() under way, between its unlock and its store call
    pump,       \* internalSendLoop: running, running with the server's quit
                \* channel closed, or returned
    clseq,      \* the sequence the next proposal to the consensus group carries
    rlog,       \* the consensus log as a replica applies it, and its replay from the start
    stopping    \* the stop() that holds the mutex: what it has still to enqueue

\* Leadership and subject subscriptions ...
lead == <<node, leader, active, subjects, csubs, client>>

\* The account's registry, the calls that span several steps, the send loop
\* and the consensus log.
aux == <<jsa, adds, purging, pump, clseq, rlog, stopping>>

\* ... and upstream consumers.
ext == <<lead, source, upstream, creates, aux>>

vars == <<cfg, lseq, lmsgId, clfs, store, ddmap, ddarr, ddindex, ddcap, ddtmr,
          consumers, numFilter, mirror, sendq, now, mu, pubs, inbound, call, accepted, ext>>

NoTimer == 0 - 1
Never == 0 - 1
NoHdrSeq == 0 - 1
StreamName == "S"
MsgIds == {"A", "B"}
Subjects == {"a", "b"}

\* ---------------------------------------------------------- configurations
InterestPolicy == "Interest"
LimitsPolicy == "Limits"

\* An interest-retention stream with a size cap.
CfgInterest ==
    [Name |-> StreamName, Retention |-> InterestPolicy, MaxMsgSize |-> 5,
     NoAck |-> FALSE, Duplicates |-> DupWindow, Mirror |-> FALSE,
     Sources |-> FALSE]
\* A limits-retention stream that sends no publish acks.
CfgNoAck ==
    [Name |-> StreamName, Retention |-> LimitsPolicy, MaxMsgSize |-> -1,
     NoAck |-> TRUE, Duplicates |-> DupWindow, Mirror |-> FALSE,
     Sources |-> FALSE]
\* A mirror stream (no subjects of its own).
CfgMirror ==
    [Name |-> StreamName, Retention |-> LimitsPolicy, MaxMsgSize |-> 5,
     NoAck |-> FALSE, Duplicates |-> DupWindow, Mirror |-> TRUE,
     Sources |-> FALSE]
\* A stream with one source (no subjects of its own).
CfgSource ==
    [Name |-> StreamName, Retention |-> LimitsPolicy, MaxMsgSize |-> 5,
     NoAck |-> FALSE, Duplicates |-> DupWindow, Mirror |-> FALSE,
     Sources |-> TRUE]
\* A plain limits-retention stream, used for the deduplication window.
CfgLimits ==
    [Name |-> StreamName, Retention |-> LimitsPolicy, MaxMsgSize |-> -1,
     NoAck |-> FALSE, Duplicates |-> DupWindow, Mirror |-> FALSE,
     Sources |-> FALSE]

\* ------------------------------------------------------- inbound messages
\* A message: subject, reply subject, the headers the stream consumes
\* ("" / NoHdrSeq when the header is absent) and the length of its body.
PlainMsg ==
    [subject |-> "a", reply |-> "r", msgId |-> "", expStream |-> "",
     expLastSeq |-> NoHdrSeq, expLastMsgId |-> "", source |-> "", msgLen |-> 1]

\* The ways a message may differ from the plain one in its headers and body...
HdrChanges ==
    {<<"msgId", i>> : i \in MsgIds} \cup {<<"expStream", s>> : s \in {StreamName, "X"}}
    \cup {<<"expLastSeq", k>> : k \in 0 .. MaxSeq - 1}
    \cup {<<"expLastMsgId", i>> : i \in MsgIds} \cup {<<"msgLen", 6>>}

\* ... and in its subject and reply subject too.
Changes == HdrChanges \cup {<<"subject", "b">>, <<"reply", "">>}

\* The plain message with at most n of the changes C applied.
RECURSIVE WithChanges(_, _)
WithChanges(C, n) ==
    IF n = 0 THEN {PlainMsg}
    ELSE LET less == WithChanges(C, n - 1) IN
         less \cup {[m EXCEPT ![c[1]] = c[2]] : m \in less, c \in C}

Msgs == {m : m \in WithChanges(Changes, MaxFeatures)}

\* Messages that differ from the plain one in their Nats-Msg-Id only.
IdMsgs == {[PlainMsg EXCEPT !.msgId = i] : i \in MsgIds \cup {""}}

\* len(hdr): one unit per header line present.
HdrLen(m) ==
    (IF m.msgId # "" THEN 1 ELSE 0) + (IF m.expStream # "" THEN 1 ELSE 0)
    + (IF m.expLastSeq # NoHdrSeq THEN 1 ELSE 0) + (IF m.expLastMsgId # "" THEN 1 ELSE 0)
    + (IF m.source # "" THEN 1 ELSE 0)

getMsgId(m) == m.msgId
getExpectedLastMsgId(m) == m.expLastMsgId
getExpectedStream(m) == m.expStream

\* getExpectedLastSeq: 0 when the header is absent, its value otherwise.
getExpectedLastSeq(m) ==
    IF m.expLastSeq = NoHdrSeq THEN 0 ELSE m.expLastSeq

\* ------------------------------------------------------------------ store
\* The storage engine (external): its first and last sequence and the
\* sequences that hold a message.
EmptyStore == [FirstSeq |-> 0, LastSeq |-> 0, msgs |-> {}]

Min(S) == CHOOSE x \in S : \A y \in S : x <= y

StoreMsgs(st) == Cardinality(st.msgs)

\* store_raw_msg: persist at the caller's sequence.
StoreRawMsg(st, seq) ==
    [FirstSeq |-> IF st.msgs = {} THEN seq ELSE st.FirstSeq,
     LastSeq |-> IF seq > st.LastSeq THEN seq ELSE st.LastSeq,
     msgs |-> st.msgs \cup {seq}]

\* store_msg: assign the next sequence and persist.
StoreMsg(st) == StoreRawMsg(st, st.LastSeq + 1)

\* skip_msg: advance the sequence without storing a body.
SkipMsg(st) ==
    [FirstSeq |-> IF st.msgs = {} THEN st.LastSeq + 2 ELSE st.FirstSeq,
     LastSeq |-> st.LastSeq + 1,
     msgs |-> st.msgs]

\* remove_msg
RemoveMsg(st, seq) ==
    LET left == st.msgs \ {seq} IN
    [FirstSeq |-> IF left = {} THEN st.LastSeq + 1 ELSE Min(left),
     LastSeq |-> st.LastSeq,
     msgs |-> left]

\* purge
StorePurge(st) ==
    [FirstSeq |-> st.LastSeq + 1, LastSeq |-> st.LastSeq, msgs |-> {}]

\* compact(seq): drop everything below seq; past the end the next message
\* stored gets sequence seq.
Compact(st, seq) ==
    LET left == {s \in st.msgs : s >= seq} IN
    IF seq > st.LastSeq
    THEN [FirstSeq |-> seq, LastSeq |-> seq - 1, msgs |-> {}]
    ELSE [FirstSeq |-> IF left = {} THEN st.LastSeq + 1 ELSE Min(left),
          LastSeq |-> st.LastSeq, msgs |-> left]

\* ------------------------------------------------------------- consumers
\* The consumers that may attach: an unfiltered leader and a filtered follower.
ConsumerPool ==
    {[name |-> "c1", FilterSubject |-> "", leader |-> TRUE],
     [name |-> "c2", FilterSubject |-> "a", leader |-> FALSE]}

\* subjectIsSubsetMatch on literal subjects and the full wildcard.
subjectIsSubsetMatch(subject, filter) ==
    filter = ">" \/ filter = subject

\* ------------------------------------------------- a handler's working state
\* The fields of the stream a handler reads and writes, together with the
\* effects it has had so far (store calls, enqueues, dedup records, consumer
\* notifications, in program order) and the error it returns.
NoMsg ==
    [subj |-> "", kind |-> "", code |-> 0, desc |-> "", seq |-> 0, id |-> "", dup |-> FALSE]

Cur ==
    [lseq |-> lseq, lmsgId |-> lmsgId, clfs |-> clfs, store |-> store,
     ddmap |-> ddmap, ddarr |-> ddarr, ddindex |-> ddindex, ddcap |-> ddcap,
     ddtmr |-> ddtmr, mu |-> mu, ev |-> <<>>, err |-> ""]

Emit(s, op, seq, ok, who, msg) ==
    [s EXCEPT !.ev = Append(@, [op |-> op, seq |-> seq, ok |-> ok, who |-> who, msg |-> msg])]

\* sendq <- &jsPubMsg{...}
Enqueue(s, msg) == Emit(s, "send", msg.seq, TRUE, "", msg)

\* A step of a handler that is no store call and no enqueue.
Did(s, op) == Emit(s, op, 0, TRUE, "", NoMsg)

Lock(s) == [s EXCEPT !.mu = "locked"]
Unlock(s) == [s EXCEPT !.mu = "unlocked"]
Return(s, err) == [s EXCEPT !.err = err]

\* response = append(pubAck, seq...) followed by "}" or ",\"duplicate\": true}"
PubAckMsg(reply, seq, dup) ==
    [subj |-> reply, kind |-> "puback", code |-> 0, desc |-> "", seq |-> seq,
     id |-> "", dup |-> dup]

\* json.Marshal(resp) with resp.Error = &ApiError{code, description}
ErrorMsg(reply, code, desc, seqArg, idArg) ==
    [subj |-> reply, kind |-> "error", code |-> code, desc |-> desc, seq |-> seqArg,
     id |-> idArg, dup |-> FALSE]

Sends(ev) ==
    LET sel == SelectSeq(ev, LAMBDA e : e.op = "send") IN
    [i \in 1 .. Len(sel) |-> sel[i].msg]

\* ------------------------------------------------------ deduplication window
\* cap of a slice after append() of one element (growslice doubles).
AppendCap(cap, len) ==
    IF len < cap THEN cap ELSE IF cap = 0 THEN 1 ELSE 2 * cap

\* cap of append([]*ddentry(nil), src...) for the short slices modelled.
CopyCap(len) == len

\* checkMsgId(id) != nil
checkMsgId(s, id) == id # "" /\ id \in DOMAIN s.ddmap

\* The id is recorded in the map only.
storeMsgId_MapOnly(s, dde) ==
    Emit([s EXCEPT !.ddtmr = IF @ = NoTimer THEN now + cfg.Duplicates ELSE @,
                   !.ddmap = [i \in DOMAIN @ \cup {dde.id} |->
                                 IF i = dde.id THEN dde ELSE @[i]]],
         "storeMsgId", dde.seq, TRUE, dde.id, NoMsg)

storeMsgId(s, dde) ==
    Emit([s EXCEPT !.ddtmr = IF @ = NoTimer THEN now + cfg.Duplicates ELSE @,
                   !.ddmap = [i \in DOMAIN @ \cup {dde.id} |->
                                 IF i = dde.id THEN dde ELSE @[i]],
                   !.ddarr = Append(@, dde),
                   !.ddcap = AppendCap(@, Len(s.ddarr))],
         "storeMsgId", dde.seq, TRUE, dde.id, NoMsg)

\* ---------------------------------------------------------- ingest pipeline
\* mset.isLeader(): a stream without a consensus node always leads.
isLeader == IF node THEN leader ELSE TRUE

\* canRespond := doAck && len(reply) > 0 && isLeader
canRespond(m) == ~cfg.NoAck /\ m.reply # "" /\ isLeader

\* lseq > 0 && lseq != (mset.lseq + mset.clfs)
SeqDiffers(s, lseqIn) == lseqIn > 0 /\ lseqIn # s.lseq + s.clfs

\* The first message of a mirror: cfg.Mirror != nil and state.FirstSeq == 0.
MirrorFirstMsg(s) == cfg.Mirror /\ s.store.FirstSeq = 0

\* An adjustment that compacts the store and leaves lseq where it was.
AdjustMirrorStart_KeepsLseq(s, lseqIn) ==
    Emit([s EXCEPT !.store = Compact(@, lseqIn + 1)], "Compact", lseqIn + 1, TRUE, "", NoMsg)

\* mset.store.Compact(lseq + 1); mset.lseq = lseq
AdjustMirrorStart(s, lseqIn) ==
    Emit([s EXCEPT !.store = Compact(@, lseqIn + 1), !.lseq = lseqIn],
         "Compact", lseqIn + 1, TRUE, "", NoMsg)

\* A reply sent whether or not a response is allowed.
Reply_Always(s, m, msg) == Enqueue(s, msg)

Reply(s, m, msg) == IF canRespond(m) THEN Enqueue(s, msg) ELSE s

RejectSeqMismatch(s, m) ==
    Return(Reply(Unlock(s), m,
                 ErrorMsg(m.reply, 503, "expected stream sequence does not match", 0, "")),
           "errLastSeqMismatch")

\* A duplicate answered without counting it in clfs.
RejectDuplicate_NotCounted(s, m) ==
    LET dde == s.ddmap[getMsgId(m)] IN
    Return(Reply(Unlock(s), m, PubAckMsg(m.reply, dde.seq, TRUE)), "msgid is duplicate")

RejectDuplicate(s, m) ==
    LET dde == s.ddmap[getMsgId(m)] IN
    Return(Reply(Unlock([s EXCEPT !.clfs = @ + 1]), m, PubAckMsg(m.reply, dde.seq, TRUE)),
           "msgid is duplicate")

\* sname != _EMPTY_ && sname != name
ExpectedStreamMismatch(m) ==
    getExpectedStream(m) # "" /\ getExpectedStream(m) # cfg.Name

RejectExpectedStream(s, m) ==
    Return(Reply(Unlock([s EXCEPT !.clfs = @ + 1]), m,
                 ErrorMsg(m.reply, 400, "expected stream does not match", 0, "")),
           "expected stream does not match")

\* seq := getExpectedLastSeq(hdr); seq > 0 && seq != mset.lseq
ExpectedLastSeqMismatch(s, m) ==
    getExpectedLastSeq(m) > 0 /\ getExpectedLastSeq(m) # s.lseq

RejectExpectedLastSeq(s, m) ==
    LET mlseq == s.lseq IN
    Return(Reply(Unlock([s EXCEPT !.clfs = @ + 1]), m,
                 ErrorMsg(m.reply, 400, "wrong last sequence", mlseq, "")),
           "last sequence mismatch")

\* lmsgId := getExpectedLastMsgId(hdr); lmsgId != _EMPTY_ && lmsgId != mset.lmsgId
ExpectedLastMsgIdMismatch(s, m) ==
    getExpectedLastMsgId(m) # "" /\ getExpectedLastMsgId(m) # s.lmsgId

RejectExpectedLastMsgId(s, m) ==
    LET last == s.lmsgId IN
    Return(Reply(Unlock([s EXCEPT !.clfs = @ + 1]), m,
                 ErrorMsg(m.reply, 400, "wrong last msg ID", 0, last)),
           "last msgid mismatch")

\* maxMsgSize >= 0 && (len(hdr)+len(msg)) > maxMsgSize
OverMaxMsgSize(m) ==
    cfg.MaxMsgSize >= 0 /\ HdrLen(m) + m.msgLen > cfg.MaxMsgSize

\* mset.mu.Unlock() comes before mset.clfs++ here.
RejectMaxPayload(s, m) ==
    LET u == Unlock(s) IN
    Return(Reply([u EXCEPT !.clfs = @ + 1], m,
                 ErrorMsg(m.reply, 400, "message size exceeds maximum allowed", 0, "")),
           "ErrMaxPayload")

\* Interest retention: no consumers, or some consumer is filtered and no
\* filtered consumer matches the subject.
NoInterest(m) ==
    IF cfg.Retention # InterestPolicy THEN FALSE
    ELSE IF Cardinality(consumers) = 0 THEN TRUE
    ELSE IF numFilter > 0
         THEN ~ \E o \in consumers :
                   o.FilterSubject # "" /\ subjectIsSubsetMatch(m.subject, o.FilterSubject)
         ELSE FALSE

\* An ack of the skip that carries the local seq, which is zero on this path.
SkipAck_LocalSeq(s, m) == Reply(s, m, PubAckMsg(m.reply, 0, FALSE))

\* response = append(pubAck, strconv.FormatUint(mset.lseq, 10)...)
SkipAck(s, m) == Reply(s, m, PubAckMsg(m.reply, s.lseq, FALSE))

\* The skip: the local seq (declared zero, never assigned on this path) goes
\* into the dedup entry, mset.lseq into the ack.
SkipBranch(s, m, ts) ==
    LET st == SkipMsg(s.store)
        s1 == Emit([s EXCEPT !.store = st, !.lseq = st.LastSeq, !.lmsgId = getMsgId(m)],
                   "SkipMsg", st.LastSeq, TRUE, "", NoMsg)
        s2 == SkipAck(Unlock(s1), m)
        s3 == IF getMsgId(m) # ""
              THEN storeMsgId(s2, [id |-> getMsgId(m), seq |-> 0, ts |-> ts])
              ELSE s2
    IN  Return(s3, "")

RECURSIVE NotifyAll(_, _, _)
NotifyAll(s, obs, seq) ==
    IF obs = {} THEN s
    ELSE LET o == CHOOSE x \in obs : TRUE IN
         NotifyAll(Emit(s, "notify", seq, TRUE, o.name, NoMsg), obs \ {o}, seq)

\* A fan-out that does not look at seq and announces mset.lseq.
FanOut_AnySeq(s, seq) ==
    IF Cardinality(consumers) > 0
    THEN NotifyAll(s, {o \in consumers : o.leader}, s.lseq)
    ELSE s

\* err == nil && seq > 0 && numConsumers > 0: every consumer that leads gets
\* incStreamPending and deliverCurrentMsg (or signalNewMessages).
FanOut(s, seq) ==
    IF seq > 0 /\ Cardinality(consumers) > 0
    THEN NotifyAll(s, {o \in consumers : o.leader}, seq)
    ELSE s

\* A rollback that puts lseq back and leaves the failed message's id in lmsgId.
RestoreLast_KeepsLmsgId(s, olseq, olmsgId) == Unlock([Lock(s) EXCEPT !.lseq = olseq])

\* A rollback that puts lmsgId back and leaves lseq advanced.
RestoreLast_KeepsLseq(s, olseq, olmsgId) == [s EXCEPT !.lmsgId = olmsgId]

\* mset.lseq = olseq; mset.lmsgId = olmsgId (under the mutex again)
RestoreLast(s, olseq, olmsgId) ==
    Unlock([Lock(s) EXCEPT !.lseq = olseq, !.lmsgId = olmsgId])

\* A limits-exceeded publish that is not answered at all.
ReplyLimitsExceeded_Silent(s, m) == s

\* A limits-exceeded publish answered with a success ack.
ReplyLimitsExceeded_Ack(s, m) == Reply(s, m, PubAckMsg(m.reply, s.lseq, FALSE))

\* resp.Error = &ApiError{Code: 400, Description: "resource limits exceeded for account"}
ReplyLimitsExceeded(s, m) ==
    Reply(s, m, ErrorMsg(m.reply, 400, "resource limits exceeded for account", 0, ""))

\* The append. ts is never zero here, so the store is given seq = olseq + 1.
\* env is what the store and the account do: "ok", "storeErr" (the store
\* returns an error) or "limits" (jsa.limitsExceeded after the append).
StoreBranch(s, m, ts, env) ==
    LET olseq == s.lseq
        olmsgId == s.lmsgId
        s1 == Unlock([s EXCEPT !.lmsgId = getMsgId(m), !.lseq = @ + 1])
        seq == olseq + 1
    IN  IF env = "storeErr"
        THEN LET s2 == Emit(s1, "StoreRawMsg", seq, FALSE, "", NoMsg)
                 s3 == RestoreLast(s2, olseq, olmsgId)
             IN  Return(Reply(s3, m, ErrorMsg(m.reply, 503, "store error", 0, "")),
                        "store error")
        ELSE LET s2 == Emit([s1 EXCEPT !.store = IF ts = 0 THEN StoreMsg(@)
                                                 ELSE StoreRawMsg(@, seq)],
                            "StoreRawMsg", seq, TRUE, "", NoMsg)
             IN  IF env = "limits"
                 THEN LET s3 == Emit([s2 EXCEPT !.store = RemoveMsg(@, seq)],
                                     "RemoveMsg", seq, TRUE, "", NoMsg)
                      IN  Return(FanOut(ReplyLimitsExceeded(s3, m), 0), "")
                 ELSE LET s3 == IF getMsgId(m) # ""
                                THEN storeMsgId(s2, [id |-> getMsgId(m), seq |-> seq, ts |-> ts])
                                ELSE s2
                      IN  Return(FanOut(Reply(s3, m, PubAckMsg(m.reply, seq, FALSE)), seq),
                                 "")

StoreEnvs == {"ok", "storeErr", "limits"}

\* processJetStreamMsg(subject, reply, hdr, msg, lseq, ts); a stream that was
\* stopped (mset.client == nil) returns nil at once.
processJetStreamMsg(m, lseqIn, tsIn, env) ==
    LET s0 == Lock(Cur)
        adjust == SeqDiffers(s0, lseqIn) /\ MirrorFirstMsg(s0)
        s1 == IF adjust THEN AdjustMirrorStart(s0, lseqIn) ELSE s0
        hasHdr == HdrLen(m) > 0
        ts == IF tsIn = 0 THEN now ELSE tsIn
    IN  IF ~client THEN Return(Unlock(s0), "")
        ELSE IF SeqDiffers(s0, lseqIn) /\ ~adjust THEN RejectSeqMismatch(s0, m)
        ELSE IF hasHdr /\ checkMsgId(s1, getMsgId(m)) THEN RejectDuplicate(s1, m)
        ELSE IF hasHdr /\ ExpectedStreamMismatch(m) THEN RejectExpectedStream(s1, m)
        ELSE IF hasHdr /\ ExpectedLastSeqMismatch(s1, m) THEN RejectExpectedLastSeq(s1, m)
        ELSE IF hasHdr /\ ExpectedLastMsgIdMismatch(s1, m)
             THEN RejectExpectedLastMsgId(s1, m)
        ELSE IF OverMaxMsgSize(m) THEN RejectMaxPayload(s1, m)
        ELSE IF NoInterest(m) THEN SkipBranch(s1, m, ts)
        ELSE StoreBranch(s1, m, ts, env)

\* ------------------------------------------------------------------ actions
\* ------------------------------------------------------------ the account
\* A StreamConfig in full, as addStream and update are given it. A nil mirror
\* is NoMirror; Storage 0, Replicas 0 and MaxConsumers 0 are "not set".
FileStorage == 22
MemoryStorage == 33
StreamMaxReplicas == 5
NoMirror == [Name |-> "", FilterSubject |-> "", OptStartSeq |-> 0, OptStartTime |-> 0]

NoConfig ==
    [Name |-> "", Subjects |-> {}, Mirror |-> NoMirror, Sources |-> {}, Storage |-> 0,
     Retention |-> LimitsPolicy, MaxConsumers |-> 0, Replicas |-> 0, Template |-> ""]

\* The config of the stream modelled in detail.
FullConfig(c, subj) ==
    [NoConfig EXCEPT !.Name = c.Name, !.Subjects = subj,
                     !.Mirror = IF c.Mirror THEN [NoMirror EXCEPT !.Name = "U"] ELSE NoMirror,
                     !.Sources = IF c.Sources THEN {"U"} ELSE {},
                     !.Storage = FileStorage, !.Retention = c.Retention,
                     !.MaxConsumers = 0 - 1, !.Replicas = 1]

\* An entry of jsa.streams: the stream object (named after the caller that
\* made it, "" for the stream modelled in detail), its config, how often its
\* store and its send loop were set up, and the subjects it subscribes to.
Registered(c, subj) ==
    [id |-> "", cfg |-> FullConfig(c, subj), stores |-> 1, pumps |-> 1, subs |-> subj]

\* The goroutines that call addStream.
Callers == {"c1", "c2"}

\* A caller not inside addStream.
NoAdd == [pc |-> "idle", name |-> ""]

\* No purge under way.
NoPurge == [pc |-> "idle", obs |-> {}]

NoCall == [op |-> "none", err |-> "", ev |-> << >>]

NoInbound ==
    [kind |-> "none", m |-> PlainMsg, sseq |-> 0, pending |-> 0, dseq |-> 0, dc |-> 0, sub |-> 0]

Max(a, b) == IF a >= b THEN a ELSE b

\* A handler's working state written back to the stream.
Commit(r) ==
    /\ lseq' = r.lseq
    /\ lmsgId' = r.lmsgId
    /\ clfs' = r.clfs
    /\ store' = r.store
    /\ ddmap' = r.ddmap
    /\ ddarr' = r.ddarr
    /\ ddindex' = r.ddindex
    /\ ddcap' = r.ddcap
    /\ ddtmr' = r.ddtmr
    /\ mu' = r.mu
    /\ sendq' = sendq \o Sends(r.ev)

\* The run stored or skipped the message as a new one and kept it.
AcceptedAsNew(r) ==
    /\ r.err = ""
    /\ \E i \in 1 .. Len(r.ev) : r.ev[i].op \in {"SkipMsg", "StoreRawMsg"} /\ r.ev[i].ok
    /\ \A i \in 1 .. Len(r.ev) : r.ev[i].op # "RemoveMsg"

Record(r, m) ==
    accepted' = IF AcceptedAsNew(r) /\ getMsgId(m) # ""
                THEN [accepted EXCEPT ![getMsgId(m)] = now]
                ELSE accepted

\* A send on the queue blocks while the channel is full.
HasRoom(r) == Len(sendq) + Len(Sends(r.ev)) <= msetSendQSize

\* The broker hands a message to the callback of one of the stream's
\* internal subscriptions (subscribeInternal).
\* A delivery of an upstream consumer carries in its reply subject the upstream
\* sequence, the delivery sequence, the delivery count and the pending count
\* (replyInfo); sub is the subscription it is delivered on.
ArriveOn(kind, m, sseq, pending, dseq, dc, sub) ==
    /\ inbound.kind = "none"
    /\ Len(sendq) <= MaxBacklog
    /\ inbound' = [kind |-> kind, m |-> m, sseq |-> sseq, pending |-> pending,
                   dseq |-> dseq, dc |-> dc, sub |-> sub]
    /\ call' = NoCall
    /\ UNCHANGED <<ext, pubs, cfg, lseq, lmsgId, clfs, store, ddmap, ddarr, ddindex, ddcap, ddtmr,
                   consumers, numFilter, mirror, sendq, now, mu, accepted>>

Arrive(kind, m, sseq, pending) == ArriveOn(kind, m, sseq, pending, 0, 0, 0)

\* The callback of the subject subscriptions: a stream that does not lead
\* ignores the message; one that leads and has no consensus node runs
\* processJetStreamMsg(subject, reply, hdr, msg, 0, 0). (A clustered leader
\* proposes the message to its consensus group, which is not part of this file.)
processInboundJetStreamMsg(m, env) ==
    /\ inbound.kind = "publish"
    /\ inbound.m = m
    /\ mu = "unlocked"
    /\ IF ~isLeader
       THEN /\ call' = [NoCall EXCEPT !.op = "ignored"]
            /\ UNCHANGED <<lseq, lmsgId, clfs, store, ddmap, ddarr, ddindex, ddcap, ddtmr,
                           sendq, mu, accepted>>
       ELSE /\ ~node
            /\ \E r \in {processJetStreamMsg(m, 0, 0, env)} :
                /\ HasRoom(r)
                /\ Commit(r)
                /\ Record(r, m)
                /\ call' = [op |-> "publish", err |-> r.err, ev |-> r.ev]
    /\ inbound' = NoInbound
    /\ UNCHANGED <<ext, pubs, cfg, consumers, numFilter, mirror, now>>

\* setupMirrorConsumer, as run by resetMirrorConsumer: a new delivery
\* subscription, a fresh sourceInfo, the delete of the prior durable and the
\* create request starting at the store's last sequence.
setupMirrorConsumer(s) ==
    LET optStartSeq == s.store.LastSeq
        policy == IF optStartSeq = 0 THEN "DeliverAll" ELSE "DeliverByStartSequence"
        s1 == Enqueue(s, [NoMsg EXCEPT !.subj = "CONSUMER.DELETE", !.kind = "request"])
    IN  Enqueue(s1, [NoMsg EXCEPT !.subj = "CONSUMER.DURABLE.CREATE", !.kind = "request",
                                  !.desc = policy, !.seq = optStartSeq])

\* processClusteredMirrorMsg / processClusteredInboundMsg: the message is
\* proposed to the consensus group, which takes it or returns an error.
processClusteredMsg(s, env) ==
    Return(Did(s, "Propose"), IF env = "ok" THEN "" ELSE "propose error")

\* The callback of the mirror's delivery subscription; the reply subject of
\* the delivery carries (sseq, ts, pending) and sub is the subscription it
\* came on. Anything not current is ignored. A sequence mismatch restarts the
\* consumer (resetMirrorConsumer), whose create request is taken as answered:
\* the upstream consumer then starts over at the requested sequence.
processInboundMirrorMsg(m, sseq, ts, pending, sub, env) ==
    /\ inbound.kind = "mirror"
    /\ inbound.m = m /\ inbound.sseq = sseq /\ inbound.pending = pending
    /\ inbound.sub = sub
    /\ mu = "unlocked"
    /\ IF ~mirror.set \/ sub # mirror.sub
       THEN /\ call' = [NoCall EXCEPT !.op = "ignored"]
            /\ UNCHANGED <<lseq, lmsgId, clfs, store, ddmap, ddarr, ddindex, ddcap, ddtmr,
                           sendq, mu, accepted, mirror, upstream>>
       ELSE \E r \in {IF node THEN processClusteredMsg(Cur, env)
                       ELSE processJetStreamMsg(m, sseq - 1, ts, env)} :
            \E reset \in {r.err = "errLastSeqMismatch"} :
            \E r1 \in {IF r.err # ""
                        THEN IF reset THEN setupMirrorConsumer(r) ELSE r
                        ELSE IF m.reply # ""
                             THEN Enqueue(r, [NoMsg EXCEPT !.subj = m.reply, !.kind = "ack"])
                             ELSE r} :
             /\ HasRoom(r1)
             /\ Commit(r1)
             /\ Record(r1, m)
             /\ mirror' = IF reset
                          THEN [set |-> TRUE, sub |-> mirror.sub + 1, lag |-> 0, last |-> 0,
                                err |-> ""]
                          ELSE [mirror EXCEPT !.lag = pending, !.last = now]
             /\ upstream' = IF reset
                            THEN [upstream EXCEPT !.start = r.store.LastSeq, !.sseq = 0,
                                                  !.dseq = 0]
                            ELSE upstream
             /\ call' = [op |-> "mirror", err |-> r1.err, ev |-> r1.ev]
    /\ inbound' = NoInbound
    /\ UNCHANGED <<lead, source, creates, aux, pubs, cfg, consumers, numFilter, now>>

\* genHeader(hdr, JSStreamSource, reply): the Nats-Stream-Source header is set
\* to the delivery's reply subject.
genHeader(m, reply) == [m EXCEPT !.source = reply]

\* No source configured.
NoSource ==
    [set |-> FALSE, sub |-> 0, live |-> FALSE, sseq |-> 0, dseq |-> 0, lag |-> 0, last |-> 0,
     err |-> ""]

\* setSourceConsumer(sname, seq) on the one source: the delete of the prior
\* durable and, unless subscribeInternal fails (the stream has no client),
\* the create request, which starts at seq when seq > 1 and at the configured
\* start (none: deliver all) otherwise.
setSourceConsumer(s, seq) ==
    LET policy == IF seq <= 1 THEN "DeliverAll" ELSE "DeliverByStartSequence"
        s1 == Enqueue(s, [NoMsg EXCEPT !.subj = "CONSUMER.DELETE", !.kind = "request"])
    IN  IF ~client THEN s1
        ELSE Enqueue(s1, [NoMsg EXCEPT !.subj = "CONSUMER.DURABLE.CREATE", !.kind = "request",
                                       !.desc = policy, !.seq = IF seq <= 1 THEN 0 ELSE seq])

\* The sourceInfo after setSourceConsumer: sseq and dseq 0 and the new
\* subscription sub, or none and the error when subscribeInternal failed.
resubscribedAs(si, sub) ==
    IF client
    THEN [si EXCEPT !.sub = sub, !.live = TRUE, !.sseq = 0, !.dseq = 0]
    ELSE [si EXCEPT !.sub = 0, !.live = FALSE, !.sseq = 0, !.dseq = 0, !.err = "invalid stream"]

resubscribed(si) == resubscribedAs(si, si.sub + 1)

\* A redelivery is dropped whatever its delivery sequence.
sourceDropped_AnyCount(si, sub, dc) == ~si.set \/ sub # si.sub

\* if si == nil || sub != si.sub || dc > 1 { return }
sourceDropped(si, sub, dc) == ~si.set \/ sub # si.sub \/ dc > 1

\* si.dseq++; si.sseq++; if dseq == 1 { si.sseq = sseq }
tracked(si, sseq, dseq) ==
    [si EXCEPT !.dseq = @ + 1, !.sseq = IF dseq = 1 THEN sseq ELSE @ + 1]

\* The callback of the source's delivery subscription. The create request of
\* a reset is taken as answered; the upstream consumer then starts over at
\* the requested sequence.
processInboundSourceMsg(m, sseq, dseq, dc, pending, sub, env) ==
    /\ inbound.kind = "source"
    /\ inbound.m = m /\ inbound.sseq = sseq /\ inbound.pending = pending
    /\ inbound.dseq = dseq /\ inbound.dc = dc /\ inbound.sub = sub
    /\ mu = "unlocked"
    /\ IF sourceDropped(source, sub, dc)
       THEN /\ call' = [NoCall EXCEPT !.op = "source"]
            /\ upstream' = IF sub = source.sub
                           THEN [upstream EXCEPT !.sseq = sseq, !.dseq = dseq]
                           ELSE upstream
            /\ UNCHANGED <<lseq, lmsgId, clfs, store, ddmap, ddarr, ddindex, ddcap, ddtmr,
                           sendq, mu, accepted, source>>
       ELSE IF dseq = source.dseq + 1
       THEN \E r \in {IF node THEN processClusteredMsg(Cur, env)
                       ELSE processJetStreamMsg(genHeader([m EXCEPT !.reply = ""], m.reply),
                                                0, 0, env)} :
            \E r1 \in {IF m.reply # ""
                        THEN Enqueue(r, [NoMsg EXCEPT !.subj = m.reply, !.kind = "ack"])
                        ELSE r} :
                /\ HasRoom(r1)
                /\ Commit(r1)
                /\ Record(r1, m)
                /\ source' = [tracked(source, sseq, dseq) EXCEPT !.last = now, !.lag = pending]
                /\ upstream' = [upstream EXCEPT !.sseq = sseq, !.dseq = dseq, !.last = sseq]
                /\ call' = [op |-> "source", err |-> r1.err, ev |-> r1.ev]
       ELSE \E r \in {setSourceConsumer(Cur, source.sseq + 1)} :
                /\ HasRoom(r)
                /\ Commit(r)
                /\ source' = resubscribed(source)
                /\ upstream' = IF client
                               THEN [upstream EXCEPT
                                       !.start = IF source.sseq + 1 <= 1 THEN 0
                                                 ELSE source.sseq + 1,
                                       !.sseq = 0, !.dseq = 0]
                               ELSE upstream
                /\ call' = [op |-> "source", err |-> "", ev |-> r.ev]
                /\ UNCHANGED accepted
    /\ inbound' = NoInbound
    /\ UNCHANGED <<lead, creates, aux, pubs, cfg, consumers,
                   numFilter, mirror, now>>

\* The goroutine a consumer setup starts to await the create response; sub is
\* the delivery subscription of that setup, seq the start sequence asked for.
Waiting(kind, sub, seq) == [kind |-> kind, sub |-> sub, seq |-> seq, st |-> "waiting"]

\* What the reply to a create request may be: a response without error, a
\* response carrying an ApiError, or bytes json.Unmarshal rejects.
CreateReplies == {"ok", "apiError", "badJSON"}

\* cancelMirrorConsumer: the delivery subscription, if any, is dropped.
cancelMirrorConsumer(mi) == [mi EXCEPT !.sub = 0]

\* shouldRetry = false: the goroutine ends after an error response.
endApiError(g) == [g EXCEPT !.st = "failed"]

\* The callback of the create request's reply subscription. It unsubscribes
\* itself, so it runs once. A reply that does not decode is not passed on to
\* the goroutine; for a mirror the delivery subscription is cancelled and the
\* error recorded.
createReply(i, reply) ==
    /\ i <= Len(creates)
    /\ creates[i].st = "waiting"
    /\ mu = "unlocked"
    /\ reply = "badJSON" => Len(creates) < MaxCreates
    /\ creates' = [creates EXCEPT ![i].st = CASE reply = "ok" -> "resp_ok"
                                             [] reply = "apiError" -> "resp_err"
                                             [] OTHER -> "badjson"]
    /\ mirror' = IF reply = "badJSON" /\ creates[i].kind = "mirror"
                 THEN [cancelMirrorConsumer(mirror) EXCEPT !.err = "invalid JSON"]
                 ELSE mirror
    /\ call' = [NoCall EXCEPT !.op = "createReply"]
    /\ UNCHANGED <<lead, source, upstream, aux, pubs, cfg, lseq,
                   lmsgId, clfs, store, ddmap, ddarr, ddindex, ddcap, ddtmr, consumers,
                   numFilter, sendq, now, mu, inbound, accepted>>

\* The goroutine's case ccr := <-respCh. An error response is recorded (and a
\* mirror's delivery subscription cancelled); the goroutine ends.
createResponse(i) ==
    /\ i <= Len(creates)
    /\ creates[i].st \in {"resp_ok", "resp_err"}
    /\ mu = "unlocked"
    /\ LET failed == creates[i].st = "resp_err" IN
       /\ creates' = [creates EXCEPT ![i] = IF failed THEN endApiError(@)
                                            ELSE [@ EXCEPT !.st = "created"]]
       /\ mirror' = IF creates[i].kind = "mirror"
                    THEN [(IF failed THEN cancelMirrorConsumer(mirror) ELSE mirror)
                            EXCEPT !.err = IF failed THEN "api error" ELSE ""]
                    ELSE mirror
       /\ source' = IF creates[i].kind = "source" /\ source.set /\ failed
                    THEN [source EXCEPT !.err = "api error"]
                    ELSE source
    /\ call' = [NoCall EXCEPT !.op = "createResponse"]
    /\ UNCHANGED <<lead, upstream, aux, pubs, cfg, lseq,
                   lmsgId, clfs, store, ddmap, ddarr, ddindex, ddcap, ddtmr, consumers,
                   numFilter, sendq, now, mu, inbound, accepted>>

\* The subscription a call of subscribeInternal returns: one the stream has
\* not had before (mset.sid++).
FreshSub ==
    LET ids == {Len(creates), mirror.sub, source.sub, inbound.sub}
               \cup {creates[j].sub : j \in 1 .. Len(creates)}
    IN  (CHOOSE x \in ids : \A y \in ids : x >= y) + 1

\* The goroutine's case <-time.After(2 * time.Second), taken when no response
\* has come, or when one has come as the timer fired. A mirror runs
\* resetMirrorConsumer; a source runs setSourceConsumer(sname, seq) if its
\* subscription is still the one of this setup.
createTimeout(i) ==
    /\ i <= Len(creates)
    /\ creates[i].st \in {"waiting", "badjson", "resp_ok", "resp_err"}
    /\ mu = "unlocked"
    /\ Len(creates) < MaxCreates
    /\ LET g == creates[i]
           sub == FreshSub
           again == IF g.kind = "mirror" THEN client
                    ELSE source.set /\ source.sub # 0 /\ source.sub = g.sub
           r == IF ~again THEN Cur
                ELSE IF g.kind = "mirror" THEN setupMirrorConsumer(Cur)
                ELSE setSourceConsumer(Cur, g.seq)
           seq == IF g.kind = "mirror" THEN store.LastSeq ELSE g.seq
       IN  /\ HasRoom(r)
           /\ Commit(r)
           /\ creates' = IF again /\ client
                         THEN Append([creates EXCEPT ![i].st = "retried"],
                                     Waiting(g.kind, sub, seq))
                         ELSE [creates EXCEPT ![i].st = "retried"]
           /\ mirror' = IF g.kind = "mirror" /\ again
                        THEN [set |-> TRUE, sub |-> sub, lag |-> 0, last |-> 0, err |-> ""]
                        ELSE mirror
           /\ source' = IF g.kind = "source" /\ again
                        THEN resubscribedAs(source, sub)
                        ELSE source
           /\ upstream' = IF again /\ client
                          THEN [upstream EXCEPT !.start = IF g.kind = "mirror" THEN seq
                                                         ELSE IF g.seq <= 1 THEN 0 ELSE g.seq,
                                                !.sseq = 0, !.dseq = 0]
                          ELSE upstream
           /\ call' = [op |-> "createTimeout", err |-> "", ev |-> r.ev]
    /\ UNCHANGED <<lead, aux, pubs, cfg, consumers, numFilter,
                   now, inbound, accepted>>

\* subscribeInternal on each subject of S: one more handler for each.
subscribeAll(cs, S) == [s \in Subjects |-> IF s \in S THEN cs[s] + 1 ELSE cs[s]]

\* unsubscribeInternal on each subject of S: the first subscription found on
\* exactly that subject is removed, if there is one.
unsubscribeAll(cs, S) ==
    [s \in Subjects |-> IF s \in S /\ cs[s] > 0 THEN cs[s] - 1 ELSE cs[s]]

\* What a run of subscribeInternal over the subjects S may have installed
\* when it returns: all of S, or, one call having failed (no client, the
\* broker refusing the subscription), the subjects before the failing one.
Installed(S) == IF client THEN SUBSET S ELSE {{}}

\* setLeader(isLeader) on a stream with subjects: subscribeToStream, which
\* returns at once when active, or unsubscribeToStream.
setLeader(isLeaderNow, done) ==
    /\ mu = "unlocked"
    /\ IF isLeaderNow
       THEN IF active
            THEN /\ done = subjects
                 /\ call' = [NoCall EXCEPT !.op = "setLeader"]
                 /\ UNCHANGED <<active, csubs>>
            ELSE /\ done \in Installed(subjects)
                 /\ csubs' = subscribeAll(csubs, done)
                 /\ active' = (done = subjects)
                 /\ call' = [NoCall EXCEPT !.op = "setLeader",
                                           !.err = IF done = subjects THEN ""
                                                   ELSE "subscribe error"]
       ELSE /\ done = {}
            /\ csubs' = unsubscribeAll(csubs, subjects)
            /\ active' = FALSE
            /\ call' = [NoCall EXCEPT !.op = "setLeader"]
    /\ UNCHANGED <<node, leader, subjects, client, source, upstream, creates, aux, pubs, cfg, lseq,
                   lmsgId, clfs, store, ddmap, ddarr, ddindex, ddcap, ddtmr, consumers,
                   numFilter, mirror, sendq, now, mu, inbound, accepted>>

\* update(config) with a config that differs in its subjects only and passes
\* configUpdateCheck: a leader subscribes to the subjects that are new and
\* unsubscribes from those no longer listed; the config is replaced and the
\* advisory sent unless one of these calls failed.
update(new, done, suppress) ==
    /\ mu = "unlocked"
    /\ LET toAdd == new \ subjects
           left == subjects \ new
           added == subscribeAll(csubs, done)
           failed == isLeader /\ (done # toAdd \/ (~client /\ left # {}))
           r == IF isLeader /\ ~suppress
                THEN Enqueue(Cur, [NoMsg EXCEPT !.subj = "ADVISORY.STREAM.UPDATED",
                                                !.kind = "advisory"])
                ELSE Cur
       IN  /\ done \in (IF isLeader THEN Installed(toAdd) ELSE {{}})
           /\ IF failed
              THEN /\ csubs' = added
                   /\ call' = [NoCall EXCEPT !.op = "update", !.err = "subscribe error"]
                   /\ UNCHANGED <<subjects, sendq, jsa>>
              ELSE /\ csubs' = IF isLeader THEN unsubscribeAll(added, left) ELSE csubs
                   /\ subjects' = new
                   /\ jsa' = IF cfg.Name \in DOMAIN jsa /\ jsa[cfg.Name].id = ""
                             THEN [jsa EXCEPT ![cfg.Name].cfg.Subjects = new,
                                              ![cfg.Name].subs = new]
                             ELSE jsa
                   /\ HasRoom(r)
                   /\ sendq' = sendq \o Sends(r.ev)
                   /\ call' = [op |-> "update", err |-> "", ev |-> r.ev]
    /\ UNCHANGED <<node, leader, active, client, source, upstream, creates, adds, purging,
                   pump, clseq, pubs, cfg, lseq, lmsgId, clfs, store, ddmap, ddarr, ddindex,
                   ddcap, ddtmr, consumers, numFilter, mirror, now, mu, inbound, accepted, rlog,
                   stopping>>

\* A request to delete the durable consumer the stream has on an upstream.
DeleteDurable == [NoMsg EXCEPT !.subj = "CONSUMER.DELETE", !.kind = "request"]

\* unsubscribeToStream: the subject subscriptions are removed, the mirror's
\* delivery subscription and those of the sources too, each with a request
\* to delete the durable upstream.
unsubscribeToStream(s) ==
    LET s1 == Did(s, "unsubscribeToStream")
        s2 == IF mirror.set THEN Enqueue(s1, DeleteDurable) ELSE s1
    IN  IF source.set THEN Enqueue(s2, DeleteDurable) ELSE s2

\* A stop that enqueues the sentinel before the requests and the advisory.
stopEnqueues_SentinelFirst(s, deleteFlag, advisory) ==
    LET s1 == Enqueue(s, [NoMsg EXCEPT !.kind = "nil"])
        s2 == IF deleteFlag /\ cfg.Sources THEN Enqueue(s1, DeleteDurable) ELSE s1
    IN  IF deleteFlag /\ advisory
        THEN Enqueue(s2, [NoMsg EXCEPT !.subj = "ADVISORY.STREAM.DELETED",
                                       !.kind = "advisory"])
        ELSE s2

\* What stop enqueues after the node is stopped: when deleting, the request
\* to delete the durable of each source and, if asked for, the delete
\* advisory (sendDeleteAdvisoryLocked); then mset.sendq <- nil.
stopEnqueues(s, deleteFlag, advisory) ==
    LET s1 == IF deleteFlag /\ cfg.Sources THEN Enqueue(s, DeleteDurable) ELSE s
        s2 == IF deleteFlag /\ advisory
              THEN Enqueue(s1, [NoMsg EXCEPT !.subj = "ADVISORY.STREAM.DELETED",
                                             !.kind = "advisory"])
              ELSE s1
    IN  Enqueue(s2, [NoMsg EXCEPT !.kind = "nil"])

\* No stop() holds the mutex.
NoStop == [pc |-> "idle", todo |-> << >>, ev |-> << >>, del |-> FALSE]

\* What a run of stop(deleteFlag, advisory) does, in order.
stopRun(deleteFlag, advisory) ==
    LET s1 == Did(Cur, "delete(jsa.streams)")
        s2 == Emit(s1, "stopWithFlags", Cardinality(consumers), TRUE, "", NoMsg)
        s3 == unsubscribeToStream(Did(s2, "stopClusterSubs"))
        s4 == IF client THEN Did(s3, "close(qch)") ELSE s3
        s5 == IF node THEN Did(s4, IF deleteFlag THEN "node.Delete" ELSE "node.Stop")
              ELSE s4
        s6 == stopEnqueues(s5, deleteFlag, advisory)
        s7 == IF ddtmr # NoTimer THEN Did(s6, "ddtmr.Stop") ELSE s6
        s8 == Did(Did(s7, "closeConnection"),
                  IF deleteFlag THEN "store.Delete" ELSE "store.Stop")
    IN  IF client THEN s8 ELSE s6

\* stop(deleteFlag, advisory): the stream leaves the account's map, its
\* consumers are stopped, stopClusterSubs and unsubscribeToStream run, the
\* quit channel is closed, the node stopped or deleted, the requests, the
\* advisory and the sentinel enqueued; then, unless the client is gone
\* already (the stream was stopped before), the dedup timer is stopped, the
\* client's connection closed, which ends all of its subscriptions, and the
\* store stopped or deleted.
stop(deleteFlag, advisory) ==
    /\ mu = "unlocked"
    /\ LET r == stopRun(deleteFlag, advisory)
       IN  /\ HasRoom(r)
           /\ sendq' = sendq \o Sends(r.ev)
           /\ call' = [op |-> "stop", err |-> "", ev |-> r.ev]
    /\ jsa' = [n \in DOMAIN jsa \ {cfg.Name} |-> jsa[n]]
    /\ consumers' = {}
    /\ active' = FALSE
    /\ mirror' = IF mirror.set THEN [mirror EXCEPT !.set = FALSE, !.sub = 0] ELSE mirror
    /\ source' = [source EXCEPT !.live = FALSE]
    /\ csubs' = IF client THEN [s \in Subjects |-> 0] ELSE unsubscribeAll(csubs, subjects)
    /\ client' = FALSE
    /\ ddtmr' = IF client THEN NoTimer ELSE ddtmr
    /\ ddarr' = IF client /\ ddtmr # NoTimer THEN << >> ELSE ddarr
    /\ ddmap' = IF client /\ ddtmr # NoTimer THEN << >> ELSE ddmap
    /\ store' = IF client /\ deleteFlag THEN EmptyStore ELSE store
    /\ UNCHANGED <<node, leader, subjects, upstream, creates, adds, purging, pump,
                   clseq, pubs, cfg, lseq, lmsgId, clfs, ddindex, ddcap, numFilter, now, mu,
                   inbound, accepted, rlog,
                   stopping>>

\* setLeader(isLeader) on a mirror or on a stream with a source, which have
\* no subjects of their own. Told to lead, a stream that is not active runs
\* setupMirrorConsumer, which fails when subscribeInternal does (no client),
\* or setupSourceConsumers: the sourceInfo is made anew, the upstream
\* sequence of the last message the store holds from the source is looked up
\* (here: of the last delivery ingested, if the store holds messages), and
\* setSourceConsumer is run from the sequence after it. Told to follow, it
\* runs stopClusterSubs and unsubscribeToStream.
setLeaderUpstream(isLeaderNow) ==
    /\ mu = "unlocked"
    /\ cfg.Mirror \/ cfg.Sources
    /\ LET sub == FreshSub
           from == IF StoreMsgs(store) = 0 THEN 0 ELSE upstream.last
           kind == IF cfg.Mirror THEN "mirror" ELSE "source"
           seq == IF cfg.Mirror THEN store.LastSeq ELSE from + 1
           setup == isLeaderNow /\ ~active
           r == IF ~isLeaderNow THEN unsubscribeToStream(Did(Cur, "stopClusterSubs"))
                ELSE IF ~setup THEN Cur
                ELSE IF ~cfg.Mirror THEN setSourceConsumer(Cur, seq)
                ELSE IF client THEN setupMirrorConsumer(Cur)
                ELSE Return(Cur, "invalid stream")
       IN  /\ (setup /\ client) => Len(creates) < MaxCreates
           /\ HasRoom(r)
           /\ Commit(r)
           /\ active' = IF ~isLeaderNow THEN FALSE
                        ELSE IF setup THEN (cfg.Mirror => client)
                        ELSE active
           /\ mirror' = IF ~isLeaderNow
                        THEN IF mirror.set THEN [mirror EXCEPT !.set = FALSE, !.sub = 0]
                             ELSE mirror
                        ELSE IF setup /\ cfg.Mirror /\ client
                        THEN [set |-> TRUE, sub |-> sub, lag |-> 0, last |-> 0, err |-> ""]
                        ELSE mirror
           /\ source' = IF ~isLeaderNow THEN [source EXCEPT !.live = FALSE]
                        ELSE IF setup /\ cfg.Sources
                        THEN resubscribedAs([NoSource EXCEPT !.set = TRUE], sub)
                        ELSE source
           /\ creates' = IF setup /\ client THEN Append(creates, Waiting(kind, sub, seq))
                         ELSE creates
           /\ upstream' = IF setup /\ client
                          THEN [upstream EXCEPT !.start = IF cfg.Sources /\ seq <= 1 THEN 0
                                                         ELSE seq,
                                                !.sseq = 0, !.dseq = 0]
                          ELSE upstream
           /\ call' = [op |-> "setLeader", err |-> r.err, ev |-> r.ev]
    /\ UNCHANGED <<node, leader, subjects, csubs, client, aux, pubs, cfg, consumers, numFilter,
                   now, inbound, accepted>>

\* The upstream consumer of the mirror delivers its next message: the one at
\* the start sequence the create request asked for (the first, when all are
\* to be delivered), then the following ones in order. The upstream stream
\* holds the sequences 1 .. MaxUpSeq.
deliverInOrder ==
    /\ mirror.set
    /\ mirror.sub \in 1 .. MaxResets
    /\ inbound.kind = "none"
    /\ Len(sendq) <= MaxBacklog
    /\ LET next == IF upstream.sseq = 0 THEN Max(upstream.start, 1) ELSE upstream.sseq + 1 IN
       /\ next <= MaxUpSeq
       /\ inbound' = [kind |-> "mirror", m |-> PlainMsg, sseq |-> next,
                      pending |-> MaxUpSeq - next, dseq |-> 0, dc |-> 0, sub |-> mirror.sub]
       /\ upstream' = [upstream EXCEPT !.sseq = next]
    /\ call' = NoCall
    /\ UNCHANGED <<lead, source, creates, aux, pubs, cfg, lseq, lmsgId, clfs, store, ddmap, ddarr,
                   ddindex, ddcap, ddtmr, consumers, numFilter, mirror, sendq, now, mu,
                   accepted>>

\* The entry the leader commits next for the message m at the time ts: it
\* carries the leader's lseq + clfs, which is the number of entries before it.
Entry(m, ts) == [m |-> m, p |-> Len(rlog.log), ts |-> ts]

\* The apply callback run on the log entry e, the store taking the message.
applyLogged(e) ==
    /\ inbound.kind = "none"
    /\ mu = "unlocked"
    /\ \E r \in {processJetStreamMsg(e.m, e.p, e.ts, "ok")} :
        /\ HasRoom(r)
        /\ Commit(r)
        /\ Record(r, e.m)
        /\ call' = [op |-> "apply", err |-> r.err, ev |-> r.ev]
    /\ UNCHANGED <<lead, source, upstream, creates, jsa, adds, purging, pump, clseq, stopping,
                   pubs, cfg, consumers, numFilter, mirror, now, inbound>>

\* An entry is committed to the consensus log, stamped with the current time,
\* and applied by the replica.
applyNew(m) ==
    /\ node
    /\ rlog.ref = << >>
    /\ applyLogged(Entry(m, now))
    /\ rlog' = [rlog EXCEPT !.log = Append(@, Entry(m, now)), !.at = @ + 1]

\* What the claim compares of a replica.
Outcome == [lseq |-> lseq, lmsgId |-> lmsgId, last |-> store.LastSeq]

\* The log is applied once more from the start by a replica with an empty
\* store (another replica, or this one set up anew); the outcome of the
\* first application is noted.
replayFromStart ==
    /\ node
    /\ rlog.ref = << >>
    /\ rlog.log # << >>
    /\ inbound.kind = "none"
    /\ mu = "unlocked"
    /\ rlog' = [rlog EXCEPT !.ref = <<Outcome>>, !.at = 0]
    /\ lseq' = 0
    /\ lmsgId' = ""
    /\ clfs' = 0
    /\ store' = EmptyStore
    /\ ddmap' = << >>
    /\ ddarr' = << >>
    /\ ddindex' = 0
    /\ ddcap' = 0
    /\ ddtmr' = NoTimer
    /\ call' = [NoCall EXCEPT !.op = "replayFromStart"]
    /\ UNCHANGED <<lead, source, upstream, creates, jsa, adds, purging, pump, clseq, stopping,
                   pubs, cfg, consumers, numFilter, mirror, sendq, now, mu, inbound, accepted>>

\* The replaying replica applies the next entry of the log, with the
\* sequence and the timestamp the entry carries.
replayEntry ==
    /\ node
    /\ rlog.ref # << >>
    /\ rlog.at < Len(rlog.log)
    /\ applyLogged(rlog.log[rlog.at + 1])
    /\ rlog' = [rlog EXCEPT !.at = @ + 1]

\* stop(deleteFlag, advisory) in the steps its sends on the queue make of it.
\* First step: the stream leaves the account's map, the consumers are
\* stopped, the mutex is taken and stopClusterSubs and unsubscribeToStream
\* run up to their first send; what is to be enqueued is noted.
stopLock(deleteFlag, advisory) ==
    /\ mu = "unlocked"
    /\ stopping.pc = "idle"
    /\ stopping' = [pc |-> "sending", todo |-> Sends(stopRun(deleteFlag, advisory).ev),
                    ev |-> stopRun(deleteFlag, advisory).ev, del |-> deleteFlag]
    /\ mu' = "locked"
    /\ jsa' = [n \in DOMAIN jsa \ {cfg.Name} |-> jsa[n]]
    /\ consumers' = {}
    /\ active' = FALSE
    /\ mirror' = IF mirror.set THEN [mirror EXCEPT !.set = FALSE, !.sub = 0] ELSE mirror
    /\ source' = [source EXCEPT !.live = FALSE]
    /\ csubs' = unsubscribeAll(csubs, subjects)
    /\ call' = NoCall
    /\ UNCHANGED <<node, leader, subjects, client, upstream, creates, adds, purging, pump, clseq,
                   rlog, pubs, cfg, lseq, lmsgId, clfs, store, ddmap, ddarr, ddindex, ddcap,
                   ddtmr, numFilter, sendq, now, inbound, accepted>>

\* mset.sendq <- msg with the mutex held: the send completes when the
\* channel has room and blocks while it is full.
stopSend ==
    /\ stopping.pc = "sending"
    /\ stopping.todo # << >>
    /\ Len(sendq) < msetSendQSize
    /\ sendq' = Append(sendq, Head(stopping.todo))
    /\ stopping' = [stopping EXCEPT !.todo = Tail(@)]
    /\ call' = NoCall
    /\ UNCHANGED <<lead, source, upstream, creates, jsa, adds, purging, pump, clseq, rlog, pubs,
                   cfg, lseq, lmsgId, clfs, store, ddmap, ddarr, ddindex, ddcap, ddtmr,
                   consumers, numFilter, mirror, now, mu, inbound, accepted>>

\* Last step, after mset.sendq <- nil: the client is taken, the dedup timer
\* cleaned up, the mutex released; a stream that had a client has its
\* connection closed and its store stopped or deleted.
stopUnlock ==
    /\ stopping.pc = "sending"
    /\ stopping.todo = << >>
    /\ client' = FALSE
    /\ csubs' = IF client THEN [s \in Subjects |-> 0] ELSE csubs
    /\ ddtmr' = IF client THEN NoTimer ELSE ddtmr
    /\ ddarr' = IF client /\ ddtmr # NoTimer THEN << >> ELSE ddarr
    /\ ddmap' = IF client /\ ddtmr # NoTimer THEN << >> ELSE ddmap
    /\ store' = IF client /\ stopping.del THEN EmptyStore ELSE store
    /\ mu' = "unlocked"
    /\ stopping' = NoStop
    /\ call' = [op |-> "stop", err |-> "", ev |-> stopping.ev]
    /\ UNCHANGED <<node, leader, active, subjects, source, upstream, creates, jsa, adds, purging,
                   pump, clseq, rlog, pubs, cfg, lseq, lmsgId, clfs, ddindex, ddcap, consumers,
                   numFilter, mirror, sendq, now, inbound, accepted>>

\* The consensus node gains or loses the leadership; the stream is told by a
\* later setLeader.
leaderChange ==
    /\ node
    /\ leader' = ~leader
    /\ call' = NoCall
    /\ UNCHANGED <<node, active, subjects, csubs, client, source, upstream, creates, aux, pubs,
                   cfg, lseq, lmsgId, clfs, store, ddmap, ddarr, ddindex, ddcap, ddtmr,
                   consumers, numFilter, mirror, sendq, now, mu, inbound, accepted>>

\* The dedup entries rebuildDedupe finds in the store: the messages from the
\* first one inside the window on, those of them that carry an id, in the
\* order of their sequences. The store keeps no headers here, so the ids are
\* any; the messages were stored at tick ts.
RECURSIVE rebuildEntries(_, _, _)
rebuildEntries(seqs, ids, ts) ==
    IF seqs = {} THEN << >>
    ELSE LET seq == Min(seqs) IN
         <<[id |-> ids[seq], seq |-> seq, ts |-> ts]>>
            \o rebuildEntries(seqs \ {seq}, ids, ts)

\* storeMsgId for each of the entries in turn.
RECURSIVE storeMsgIds(_, _)
storeMsgIds(s, entries) ==
    IF entries = << >> THEN s
    ELSE storeMsgIds(storeMsgId(s, Head(entries)), Tail(entries))

\* The stream is created anew on the store it had (a restart): the stream
\* object starts empty and rebuildDedupe sets lseq and lmsgId from the store
\* and records the ids of the messages inside the window.
rebuildDedupe(seqs, ids, ts) ==
    /\ mu = "unlocked"
    /\ inbound.kind = "none"
    /\ sendq = << >>
    /\ seqs \subseteq store.msgs
    /\ LET fresh == [Cur EXCEPT !.lseq = store.LastSeq, !.clfs = 0, !.ddmap = << >>,
                                !.ddarr = << >>, !.ddindex = 0, !.ddcap = 0,
                                !.ddtmr = NoTimer]
           entries == rebuildEntries(seqs, ids, ts)
           r == storeMsgIds(fresh, entries)
           last == IF store.LastSeq \in seqs THEN ids[store.LastSeq] ELSE ""
       IN  /\ Commit([r EXCEPT !.lmsgId = last, !.ev = << >>])
           /\ call' = [op |-> "rebuildDedupe", err |-> "", ev |-> r.ev]
    /\ consumers' = {}
    /\ numFilter' = 0
    /\ UNCHANGED <<ext, pubs, cfg, mirror, now, inbound, accepted>>

\* The leader of the consensus group proposes a message: the entry carries
\* the next cluster sequence, and the replica is handed it once committed.
propose(m) ==
    /\ node
    /\ inbound.kind = "none"
    /\ Len(sendq) <= MaxBacklog
    /\ inbound' = [NoInbound EXCEPT !.kind = "entry", !.m = m, !.sseq = clseq]
    /\ clseq' = clseq + 1
    /\ call' = NoCall
    /\ UNCHANGED <<lead, source, upstream, creates, jsa, adds, purging, pump, pubs, cfg, lseq,
                   lmsgId, clfs, store, ddmap, ddarr, ddindex, ddcap, ddtmr, consumers,
                   numFilter, mirror, sendq, now, mu, accepted, rlog,
                   stopping>>

\* The apply callback of the consensus node: the entry re-enters the pipeline
\* as processJetStreamMsg(subject, reply, hdr, msg, lseq, ts) with the
\* sequence and the timestamp it carries.
applyEntry(m, p, ts, env) ==
    /\ inbound.kind = "entry"
    /\ inbound.m = m /\ inbound.sseq = p
    /\ mu = "unlocked"
    /\ \E r \in {processJetStreamMsg(m, p, ts, env)} :
        /\ HasRoom(r)
        /\ Commit(r)
        /\ Record(r, m)
        /\ call' = [op |-> "apply", err |-> r.err, ev |-> r.ev]
    /\ inbound' = NoInbound
    /\ UNCHANGED <<ext, pubs, cfg, consumers, numFilter, mirror, now>>

\* All of the stream modelled in detail.
mset == <<cfg, lseq, lmsgId, clfs, store, ddmap, ddarr, ddindex, ddcap, ddtmr, consumers,
          numFilter, mirror, sendq, now, mu, pubs, inbound, accepted, lead, source, upstream,
          creates, purging, pump, clseq, rlog, stopping>>

\* SubjectsCollide on literal subjects and the full wildcard.
SubjectsCollide(x, y) == x = y \/ x = ">" \/ y = ">"

\* checkStreamCfg: the defaults are filled in; too many replicas and a
\* subject inside the API's own space are refused.
checkStreamCfg(config) ==
    LET c1 == [config EXCEPT !.Storage = IF @ = 0 THEN FileStorage ELSE @,
                             !.Replicas = IF @ = 0 THEN 1 ELSE @,
                             !.MaxConsumers = IF @ = 0 THEN 0 - 1 ELSE @]
        c2 == IF c1.Subjects = {} /\ c1.Mirror = NoMirror /\ c1.Sources = {}
              THEN [c1 EXCEPT !.Subjects = {c1.Name}]
              ELSE c1
    IN  IF c1.Replicas > StreamMaxReplicas
        THEN [cfg |-> c1, err |-> "maximum replicas"]
        ELSE IF "$JS.API.x" \in c1.Subjects
        THEN [cfg |-> NoConfig, err |-> "subjects overlap with jetstream api"]
        ELSE [cfg |-> c2, err |-> ""]

\* A lookup that never finds the name.
lookup_Miss(name) == FALSE

\* mset, ok := jsa.streams[cfg.Name]
lookup(name) == name \in DOMAIN jsa

\* jsa.subjectsOverlap(cfg.Subjects)
subjectsOverlap(subjs) ==
    \E n \in DOMAIN jsa : \E subj \in jsa[n].cfg.Subjects :
    \E tsubj \in subjs : SubjectsCollide(tsubj, subj)

\* The checks addStream makes on a config whose name is free, in its order.
\* (The account's limits and the template's ownership are the account's to
\* decide; they let the stream pass here.)
createCheck(c) ==
    IF c.Mirror # NoMirror
    THEN IF c.Subjects # {} THEN "stream mirrors can not also contain subjects"
         ELSE IF c.Sources # {} THEN "stream mirrors can not also contain other sources"
         ELSE IF c.Mirror.FilterSubject # ""
         THEN "stream mirrors can not contain filtered subjects"
         ELSE IF c.Mirror.OptStartSeq > 0 /\ c.Mirror.OptStartTime > 0
         THEN "stream mirrors can not have both start seq and start time configured"
         ELSE IF subjectsOverlap(c.Subjects) THEN "subjects overlap with an existing stream"
         ELSE ""
    ELSE IF c.Subjects = {} /\ c.Sources = {}
    THEN "stream needs at least one configured subject or mirror"
    ELSE IF subjectsOverlap(c.Subjects) THEN "subjects overlap with an existing stream"
    ELSE ""

\* addStream(config) up to the jsa.mu.Unlock() that follows the lookup or the
\* registration: checkStreamCfg; a name that is taken returns its stream when
\* the configs are equal and ErrJetStreamStreamAlreadyUsed otherwise; a free
\* name is checked and a new stream registered under it.
addStream(c, config) ==
    /\ adds[c].pc = "idle"
    /\ LET chk == checkStreamCfg(config)
           name == chk.cfg.Name
           err == IF chk.err # "" THEN chk.err
                  ELSE IF lookup(name)
                  THEN IF jsa[name].cfg = chk.cfg THEN ""
                       ELSE "ErrJetStreamStreamAlreadyUsed"
                  ELSE createCheck(chk.cfg)
       IN  IF chk.err = "" /\ ~lookup(name) /\ err = ""
           THEN /\ jsa' = [n \in DOMAIN jsa \cup {name} |->
                             IF n = name
                             THEN [id |-> c, cfg |-> chk.cfg, stores |-> 0, pumps |-> 0,
                                   subs |-> {}]
                             ELSE jsa[n]]
                /\ adds' = [adds EXCEPT ![c] = [pc |-> "created", name |-> name]]
                /\ call' = [NoCall EXCEPT !.op = "addStream", !.ev = <<[op |-> "jsa.streams",
                                                                       who |-> c, new |-> chk.cfg]>>]
           ELSE /\ jsa' = jsa
                /\ adds' = adds
                /\ call' = [NoCall EXCEPT !.op = "addStream", !.err = err,
                                          !.ev = <<[op |-> IF chk.err # ""
                                                           THEN "checkStreamCfg"
                                                           ELSE "return",
                                                    who |-> c, new |-> chk.cfg,
                                                    ret |-> IF err = "" THEN jsa[name].id
                                                            ELSE "nil"]>>]
    /\ UNCHANGED mset

\* The rest of addStream, jsa.mu released: setupStore, setupSendCapabilities
\* and, standalone, setLeader(true); a failure of setupStore or of setLeader
\* ends in mset.stop(true, false), which deletes the name from jsa.streams.
addStreamSetup(c, env) ==
    /\ adds[c].pc = "created"
    /\ LET name == adds[c].name
           mine == name \in DOMAIN jsa /\ jsa[name].id = c
       IN  IF env = "ok"
           THEN /\ jsa' = IF mine
                          THEN [jsa EXCEPT ![name].stores = @ + 1, ![name].pumps = @ + 1,
                                           ![name].subs = jsa[name].cfg.Subjects]
                          ELSE jsa
                /\ adds' = [adds EXCEPT ![c] = NoAdd]
                /\ call' = [NoCall EXCEPT !.op = "addStreamSetup"]
           ELSE /\ jsa' = [n \in DOMAIN jsa \ {name} |-> jsa[n]]
                /\ adds' = [adds EXCEPT ![c] = NoAdd]
                /\ call' = [NoCall EXCEPT !.op = "addStreamSetup", !.err = env]
    /\ UNCHANGED mset

\* configUpdateCheck(old, new)
configUpdateCheck(old, new) ==
    LET chk == checkStreamCfg(new) IN
    IF chk.err # "" THEN chk
    ELSE IF chk.cfg.Name # old.Name
    THEN [chk EXCEPT !.err = "stream configuration name must match original"]
    ELSE IF chk.cfg.MaxConsumers # old.MaxConsumers
    THEN [chk EXCEPT !.err = "stream configuration update can not change MaxConsumers"]
    ELSE IF chk.cfg.Storage # old.Storage
    THEN [chk EXCEPT !.err = "stream configuration update can not change storage type"]
    ELSE IF chk.cfg.Retention # old.Retention
    THEN [chk EXCEPT !.err = "stream configuration update can not change retention policy"]
    ELSE IF old.Template # ""
    THEN [chk EXCEPT !.err = "stream configuration update not allowed on template owned stream"]
    ELSE IF chk.cfg.Template # ""
    THEN [chk EXCEPT !.err = "stream configuration update can not be owned by a template"]
    ELSE chk

\* update(config) on another stream of the account, its subscribe and
\* unsubscribe calls succeeding: configUpdateCheck, then the subscriptions
\* follow the new subjects and the config is replaced.
updateStream(name, config) ==
    /\ name \in DOMAIN jsa
    /\ jsa[name].id # ""
    /\ jsa[name].stores > 0
    /\ LET chk == configUpdateCheck(jsa[name].cfg, config) IN
       /\ jsa' = IF chk.err # "" THEN jsa
                 ELSE [jsa EXCEPT ![name].cfg = chk.cfg, ![name].subs = chk.cfg.Subjects]
       /\ call' = [NoCall EXCEPT !.op = "updateStream", !.err = chk.err,
                                 !.ev = <<[op |-> "mset.cfg", who |-> name,
                                           old |-> jsa[name].cfg, new |-> config]>>]
    /\ UNCHANGED <<mset, adds>>

\* stop on another stream of the account: it leaves jsa.streams.
stopStream(name) ==
    /\ name \in DOMAIN jsa
    /\ jsa[name].id # ""
    /\ jsa[name].stores > 0
    /\ jsa' = [n \in DOMAIN jsa \ {name} |-> jsa[n]]
    /\ call' = [NoCall EXCEPT !.op = "stopStream"]
    /\ UNCHANGED <<mset, adds>>

\* purgeMsgIds, run when the dedup timer is due.
purgeMsgIds ==
    /\ mu = "unlocked"
    /\ ddtmr # NoTimer
    /\ now >= ddtmr
    /\ LET window == cfg.Duplicates
           n == Len(ddarr)
           live == {i \in ddindex + 1 .. n : now - ddarr[i].ts < window}
           upTo == IF live = {} THEN n + 1 ELSE Min(live)
           gone == {ddarr[i].id : i \in ddindex + 1 .. upTo - 1}
           map1 == [i \in DOMAIN ddmap \ gone |-> ddmap[i]]
           index1 == IF live = {} THEN ddindex ELSE upTo - 1
           collect == live # {} /\ ddcap > 3 * (n - index1)
           tmrNext == IF live = {} THEN window ELSE window - (now - ddarr[upTo].ts)
       IN
       /\ ddmap' = map1
       /\ ddarr' = IF collect THEN SubSeq(ddarr, index1 + 1, n) ELSE ddarr
       /\ ddcap' = IF collect THEN CopyCap(n - index1) ELSE ddcap
       /\ ddindex' = IF collect THEN 0 ELSE index1
       /\ ddtmr' = IF DOMAIN map1 # {} THEN now + Max(tmrNext, MinFire) ELSE NoTimer
    /\ call' = [NoCall EXCEPT !.op = "purgeMsgIds"]
    /\ UNCHANGED <<ext, pubs, cfg, lseq, lmsgId, clfs, store, consumers, numFilter, mirror, sendq,
                   now, mu, inbound, accepted>>

\* purge(): the dedup map is dropped, the store purged, every consumer told.
purge ==
    /\ mu = "unlocked"
    /\ ddmap' = << >>
    /\ store' = StorePurge(store)
    /\ accepted' = [i \in MsgIds |-> Never]
    /\ call' = [NoCall EXCEPT !.op = "purge",
                 !.ev = NotifyAll(Emit(Cur, "Purge", 0, TRUE, "", NoMsg), consumers,
                                  StorePurge(store).FirstSeq).ev]
    /\ UNCHANGED <<ext, pubs, cfg, lseq, lmsgId, clfs, ddarr, ddindex, ddcap, ddtmr, consumers,
                   numFilter, mirror, sendq, now, mu, inbound>>

\* purge() up to its mset.mu.Unlock(): a stream without client returns
\* "stream closed"; otherwise the dedup map is dropped and the consumers are
\* noted.
purgeBegin ==
    /\ mu = "unlocked"
    /\ purging.pc = "idle"
    /\ IF ~client
       THEN /\ call' = [NoCall EXCEPT !.op = "purge", !.err = "stream closed"]
            /\ UNCHANGED <<ddmap, purging>>
       ELSE /\ ddmap' = << >>
            /\ purging' = [pc |-> "store", obs |-> consumers]
            /\ call' = NoCall
    /\ UNCHANGED <<lead, source, upstream, creates, jsa, adds, pump, clseq, pubs, cfg, lseq,
                   lmsgId, clfs, store, ddarr, ddindex, ddcap, ddtmr, consumers, numFilter,
                   mirror, sendq, now, mu, inbound, accepted, rlog,
                   stopping>>

\* The rest of purge(), the mutex not held: store.Purge(), whose error is
\* returned at once, then o.purge(stats.FirstSeq) on the consumers noted.
purgeEnd(env) ==
    /\ purging.pc = "store"
    /\ purging' = NoPurge
    /\ IF env = "storeErr"
       THEN /\ call' = [op |-> "purge", err |-> "store error",
                        ev |-> Emit(Cur, "Purge", 0, FALSE, "", NoMsg).ev]
            /\ UNCHANGED <<store, accepted>>
       ELSE /\ store' = StorePurge(store)
            /\ accepted' = [i \in MsgIds |-> Never]
            /\ call' = [NoCall EXCEPT !.op = "purge",
                         !.ev = NotifyAll(Emit(Cur, "Purge", 0, TRUE, "", NoMsg), purging.obs,
                                          StorePurge(store).FirstSeq).ev]
    /\ UNCHANGED <<lead, source, upstream, creates, jsa, adds, pump, clseq, pubs, cfg, lseq,
                   lmsgId, clfs, ddmap, ddarr, ddindex, ddcap, ddtmr, consumers, numFilter,
                   mirror, sendq, now, mu, inbound, rlog,
                   stopping>>

setConsumer(o) ==
    /\ mu = "unlocked"
    /\ consumers' = {c \in consumers : c.name # o.name} \cup {o}
    /\ numFilter' = IF o.FilterSubject # "" THEN numFilter + 1 ELSE numFilter
    /\ call' = NoCall
    /\ UNCHANGED <<ext, pubs, cfg, lseq, lmsgId, clfs, store, ddmap, ddarr, ddindex, ddcap, ddtmr,
                   mirror, sendq, now, mu, inbound, accepted>>

removeConsumer(o) ==
    /\ mu = "unlocked"
    /\ numFilter' = IF o.FilterSubject # "" THEN numFilter - 1 ELSE numFilter
    /\ consumers' = consumers \ {o}
    /\ call' = NoCall
    /\ UNCHANGED <<ext, pubs, cfg, lseq, lmsgId, clfs, store, ddmap, ddarr, ddindex, ddcap, ddtmr,
                   mirror, sendq, now, mu, inbound, accepted>>

\* A loop that takes the nil for a message.
sentinel_Never(pm) == FALSE

\* if pm == nil { return }
sentinel(pm) == pm.kind = "nil"

\* One round of internalSendLoop's select. case pm := <-sendq: the loop
\* returns on the nil sentinel and hands any other message to the broker
\* (processInboundClientMsg). case <-s.quitCh: the loop returns. With both
\* ready the select takes either.
internalSendLoop ==
    /\ pump # "exited"
    /\ \/ /\ sendq # << >>
          /\ sendq' = Tail(sendq)
          /\ IF sentinel(Head(sendq))
             THEN /\ pump' = "exited"
                  /\ call' = [NoCall EXCEPT !.op = "sendLoopReturn"]
             ELSE /\ pump' = pump
                  /\ call' = [op |-> "deliver", err |-> "",
                               ev |-> Emit(Cur, "deliver", 0, TRUE, "", Head(sendq)).ev]
       \/ /\ pump = "quit"
          /\ pump' = "exited"
          /\ call' = [NoCall EXCEPT !.op = "sendLoopReturn"]
          /\ sendq' = sendq
    /\ UNCHANGED <<lead, source, upstream, creates, jsa, adds, purging, clseq, pubs, cfg, lseq,
                   lmsgId, clfs, store, ddmap, ddarr, ddindex, ddcap, ddtmr, consumers,
                   numFilter, mirror, now, mu, inbound, accepted, rlog,
                   stopping>>

\* The server shuts down: s.quitCh is closed.
quit ==
    /\ pump = "running"
    /\ pump' = "quit"
    /\ call' = NoCall
    /\ UNCHANGED <<lead, source, upstream, creates, jsa, adds, purging, clseq, pubs, cfg, lseq,
                   lmsgId, clfs, store, ddmap, ddarr, ddindex, ddcap, ddtmr, consumers,
                   numFilter, mirror, sendq, now, mu, inbound, accepted, rlog,
                   stopping>>

\* Publishes of different client connections run the callback on their own
\* goroutines. The size-cap branch releases the mutex before mset.clfs++, so
\* that increment is a load and a store other goroutines may come between.
Producers == {"p1", "p2"}

\* A producer not inside the handler. Inside it: the message, the value read
\* (clfs, or olseq), olmsgId, and when it has returned the sequence its
\* message is stored at, the sequence of its success ack (0: none) and the
\* error returned.
Idle == [pc |-> "idle", m |-> PlainMsg, n |-> 0, id |-> "", seq |-> 0, ack |-> 0, err |-> ""]

\* processJetStreamMsg on an oversized message, from mset.mu.Lock() to the
\* mset.mu.Unlock() of the size-cap branch.
rejectMaxPayloadUnlock(p, m) ==
    /\ pubs[p].pc = "idle"
    /\ mu = "unlocked"
    /\ ~cfg.Mirror
    /\ isLeader
    /\ processJetStreamMsg(m, 0, 0, "ok").err = "ErrMaxPayload"
    /\ pubs' = [pubs EXCEPT ![p] = [Idle EXCEPT !.pc = "load", !.m = m]]
    /\ call' = NoCall
    /\ UNCHANGED <<ext, cfg, lseq, lmsgId, clfs, store, ddmap, ddarr, ddindex, ddcap, ddtmr,
                   consumers, numFilter, mirror, sendq, now, mu, inbound, accepted>>

\* mset.clfs++ outside the mutex: the read ...
clfsLoad(p) ==
    /\ pubs[p].pc = "load"
    /\ pubs' = [pubs EXCEPT ![p].pc = "store", ![p].n = clfs]
    /\ call' = NoCall
    /\ UNCHANGED <<ext, cfg, lseq, lmsgId, clfs, store, ddmap, ddarr, ddindex, ddcap, ddtmr,
                   consumers, numFilter, mirror, sendq, now, mu, inbound, accepted>>

\* ... and the write, followed by the reply and the return of ErrMaxPayload.
clfsStore(p) ==
    /\ pubs[p].pc = "store"
    /\ \E r \in {RejectMaxPayload([Cur EXCEPT !.clfs = pubs[p].n], pubs[p].m)} :
        /\ HasRoom(r)
        /\ Commit(r)
        /\ call' = [op |-> "publish", err |-> r.err, ev |-> r.ev]
    /\ pubs' = [pubs EXCEPT ![p].pc = "done"]
    /\ UNCHANGED <<ext, cfg, consumers, numFilter, mirror, now, inbound, accepted>>

\* processJetStreamMsg on a standalone stream, from mset.mu.Lock() to the
\* mset.mu.Unlock() of the branch taken. A message that fails a check or is
\* skipped is dealt with at once. For one that goes to the store, olseq and
\* olmsgId are noted, lmsgId and lseq advanced ("assume this will succeed")
\* and the mutex released.
storeAssume(p, m) ==
    /\ pubs[p].pc = "idle"
    /\ mu = "unlocked"
    /\ ~node
    /\ \E r \in {processJetStreamMsg(m, 0, 0, "ok")} :
         IF \E i \in 1 .. Len(r.ev) : r.ev[i].op = "StoreRawMsg"
         THEN /\ lmsgId' = getMsgId(m)
              /\ lseq' = lseq + 1
              /\ pubs' = [pubs EXCEPT ![p] = [Idle EXCEPT !.pc = "store", !.m = m, !.n = lseq,
                                                          !.id = lmsgId]]
              /\ call' = [NoCall EXCEPT !.op = "storeAssume"]
              /\ UNCHANGED <<clfs, store, ddmap, ddarr, ddindex, ddcap, ddtmr, mu, sendq,
                             accepted>>
         ELSE /\ HasRoom(r)
              /\ Commit(r)
              /\ Record(r, m)
              /\ pubs' = [pubs EXCEPT ![p] = [Idle EXCEPT !.pc = "done", !.m = m,
                                                          !.err = r.err]]
              /\ call' = [op |-> "publish", err |-> r.err, ev |-> r.ev]
    /\ UNCHANGED <<ext, cfg, consumers, numFilter, mirror, now, inbound>>

\* The store call, the mutex not held: seq = olseq + 1 and
\* store.StoreRawMsg(subject, hdr, msg, seq, ts); jsa.limitsExceeded is asked
\* when it returned no error.
storeRawMsg(p, env) ==
    /\ pubs[p].pc = "store"
    /\ LET seq == pubs[p].n + 1 IN
       IF env = "storeErr"
       THEN /\ pubs' = [pubs EXCEPT ![p].pc = "failed"]
            /\ store' = store
       ELSE /\ pubs' = [pubs EXCEPT ![p].pc = IF env = "limits" THEN "limits" ELSE "stored",
                                    ![p].seq = seq]
            /\ store' = StoreRawMsg(store, seq)
    /\ call' = [NoCall EXCEPT !.op = "StoreRawMsg"]
    /\ UNCHANGED <<ext, cfg, lseq, lmsgId, clfs, ddmap, ddarr, ddindex, ddcap, ddtmr, consumers,
                   numFilter, mirror, sendq, now, mu, inbound, accepted>>

\* The handler from the return of the store call on. After an error the old
\* values are put back under the mutex; for exceeded limits the message is
\* removed; otherwise the id is recorded (storeMsgId takes the mutex). Then
\* the response is sent and the consumers are told.
storeReturn(p) ==
    /\ pubs[p].pc \in {"failed", "limits", "stored"}
    /\ mu = "unlocked"
    /\ LET g == pubs[p]
           m == g.m
           seq == g.n + 1
           r == CASE g.pc = "failed" ->
                       Return(Reply(RestoreLast(Cur, g.n, g.id), m,
                                    ErrorMsg(m.reply, 503, "store error", 0, "")),
                              "store error")
                  [] g.pc = "limits" ->
                       Return(FanOut(ReplyLimitsExceeded(
                                         Emit([Cur EXCEPT !.store = RemoveMsg(@, seq)],
                                              "RemoveMsg", seq, TRUE, "", NoMsg), m), 0), "")
                  [] OTHER ->
                       LET s1 == IF getMsgId(m) # ""
                                 THEN storeMsgId(Cur, [id |-> getMsgId(m), seq |-> seq,
                                                       ts |-> now])
                                 ELSE Cur
                       IN  Return(FanOut(Reply(s1, m, PubAckMsg(m.reply, seq, FALSE)), seq), "")
       IN  /\ HasRoom(r)
           /\ Commit(r)
           /\ accepted' = IF g.pc = "stored" /\ getMsgId(m) # ""
                          THEN [accepted EXCEPT ![getMsgId(m)] = now]
                          ELSE accepted
           /\ pubs' = [pubs EXCEPT ![p].pc = "done",
                                   ![p].seq = IF g.pc = "stored" THEN seq ELSE 0,
                                   ![p].ack = IF g.pc = "stored" /\ canRespond(m) THEN seq ELSE 0,
                                   ![p].err = r.err]
           /\ call' = [op |-> "publish", err |-> r.err, ev |-> r.ev]
    /\ UNCHANGED <<ext, cfg, consumers, numFilter, mirror, now, inbound>>

\* The wall clock advances.
Tick ==
    /\ now < MaxTime
    /\ now' = now + 1
    /\ call' = NoCall
    /\ UNCHANGED <<ext, pubs, cfg, lseq, lmsgId, clfs, store, ddmap, ddarr, ddindex, ddcap, ddtmr,
                   consumers, numFilter, mirror, sendq, mu, inbound, accepted>>

\* --------------------------------------------------------- specifications
\* No entry applied yet.
NoLog == [log |-> << >>, ref |-> << >>, at |-> 0]

\* No upstream consumer of a source.
NoUpstream == [start |-> 0, sseq |-> 0, dseq |-> 0, last |-> 0]

\* A stream on an empty store whose subscriptions are installed: a standalone
\* stream as addStream leaves it (setLeader(true) has run), or, when
\* clustered, a stream that was leader and has not yet been told it lost the
\* leadership. The create request of a mirror or source is either answered
\* already, its goroutine gone, or still awaited. The messages q wait in the
\* send queue, each the answer to a publish that was rejected for a header
\* (which raised clfs); the send loop is running or has returned (loop).
InitQueued(cfgs, clustered, answered, q, loop) ==
    /\ cfg \in cfgs
    /\ node = clustered
    /\ leader = FALSE
    /\ active = TRUE
    /\ subjects = IF cfg.Mirror \/ cfg.Sources THEN {} ELSE Subjects
    /\ csubs = [s \in Subjects |-> IF cfg.Mirror \/ cfg.Sources THEN 0 ELSE 1]
    /\ client = TRUE
    /\ source = IF cfg.Sources THEN [NoSource EXCEPT !.set = TRUE, !.sub = 1, !.live = TRUE]
                ELSE NoSource
    /\ upstream = NoUpstream
    /\ creates = IF answered \/ ~(cfg.Mirror \/ cfg.Sources) THEN << >>
                 ELSE <<Waiting(IF cfg.Mirror THEN "mirror" ELSE "source", 1, 0)>>
    /\ lseq = 0
    /\ lmsgId = ""
    /\ clfs = Len(q)
    /\ store = EmptyStore
    /\ ddmap = << >>
    /\ ddarr = << >>
    /\ ddindex = 0
    /\ ddcap = 0
    /\ ddtmr = NoTimer
    /\ consumers = {}
    /\ numFilter = 0
    /\ mirror = [set |-> cfg.Mirror, sub |-> IF cfg.Mirror THEN 1 ELSE 0, lag |-> 0, last |-> 0,
                 err |-> ""]
    /\ sendq = q
    /\ now = 1
    /\ mu = "unlocked"
    /\ pubs = [p \in Producers |-> Idle]
    /\ inbound = NoInbound
    /\ call = NoCall
    /\ accepted = [i \in MsgIds |-> Never]
    /\ jsa = (cfg.Name :> Registered(cfg, subjects))
    /\ adds = [c \in Callers |-> NoAdd]
    /\ purging = NoPurge
    /\ pump = loop
    /\ clseq = 0
    /\ rlog = NoLog
    /\ stopping = NoStop

\* The same with nothing queued and the send loop running.
InitState(cfgs, clustered, answered) ==
    InitQueued(cfgs, clustered, answered, << >>, "running")

InitStream(cfgs, clustered) == InitState(cfgs, clustered, TRUE)

\* A stream just created, standalone, leading.
InitWith(cfgs) == InitStream(cfgs, FALSE)

\* The ingest pipeline of a stream with subjects or of a mirror, standalone,
\* or of a clustered stream that has lost the leadership, the clock standing
\* still.
Init == InitWith({CfgInterest, CfgNoAck, CfgMirror}) \/ InitStream({CfgInterest}, TRUE)

Publish ==
    /\ ~cfg.Mirror
    /\ store.LastSeq < MaxSeq
    /\ clfs < MaxClfs
    /\ \E m \in Msgs : Arrive("publish", m, 0, 0)

Ingest == \E env \in StoreEnvs : processInboundJetStreamMsg(inbound.m, env)

\* A consumer is created under a name the stream does not have yet ...
AddConsumer ==
    \E o \in ConsumerPool : (\A c \in consumers : c.name # o.name) /\ setConsumer(o)

\* ... and one of the stream's consumers is deleted.
DelConsumer == \E o \in consumers : removeConsumer(o)

\* Deliveries carry the upstream message with its headers and an ack reply.
MirrorMsgs == {m : m \in WithChanges(HdrChanges, MaxFeatures)}

MirrorDelivery ==
    /\ mirror.set
    /\ store.LastSeq < MaxSeq
    /\ clfs < MaxClfs
    /\ mirror.sub <= MaxResets
    /\ \E m \in MirrorMsgs, sseq \in 1 .. MaxSeq, pending \in {0, 1} :
          ArriveOn("mirror", m, sseq, pending, 0, 0, mirror.sub)

MirrorIngest ==
    \E env \in StoreEnvs :
        processInboundMirrorMsg(inbound.m, inbound.sseq, now, inbound.pending, inbound.sub,
                                env)

Next ==
    \/ Publish
    \/ Ingest
    \/ MirrorDelivery
    \/ MirrorIngest
    \/ AddConsumer
    \/ DelConsumer
    \/ internalSendLoop

Spec == Init /\ [][Next]_vars

\* The deduplication window of a plain stream under publishes that differ in
\* their Nats-Msg-Id only, timer firings, stream purges and the passing of time.
InitDedup == InitWith({CfgLimits})

PublishId ==
    /\ store.LastSeq < MaxDedupSeq
    /\ clfs < MaxClfs
    /\ \E m \in IdMsgs : Arrive("publish", m, 0, 0)

NextDedup ==
    \/ PublishId
    \/ Ingest
    \/ purgeMsgIds
    \/ purge
    \/ internalSendLoop
    \/ Tick

SpecDedup == InitDedup /\ [][NextDedup]_vars

\* Two client connections publish oversized messages at the same time.
InitRace == InitWith({CfgInterest})

Oversized == \E p \in Producers, m \in Msgs : rejectMaxPayloadUnlock(p, m)

LoadClfs == \E p \in Producers : clfsLoad(p)

StoreClfs == \E p \in Producers : clfsStore(p)

NextRace ==
    \/ Oversized
    \/ LoadClfs
    \/ StoreClfs
    \/ internalSendLoop

SpecRace == InitRace /\ [][NextRace]_vars

\* A stream with one source, standalone: the upstream consumer delivers
\* messages of rising upstream and delivery sequence; deliveries may be lost
\* on the way, the upstream may skip sequences (filtered or deleted messages),
\* a delivery may be a redelivery or come from the subscription before the
\* last reset.
InitSource == InitWith({CfgSource})

\* Deliveries carry the upstream message with its headers and an ack reply.
SourceMsgs ==
    {PlainMsg, [PlainMsg EXCEPT !.msgId = "A"], [PlainMsg EXCEPT !.expStream = "X"],
     [PlainMsg EXCEPT !.msgLen = 5]}

\* The next delivery of the current upstream consumer, the lost ones counted.
SourceDelivery ==
    /\ source.set
    /\ store.LastSeq <= MaxSeq
    /\ clfs < MaxClfs
    /\ source.sub <= MaxResets
    /\ \E m \in SourceMsgs, lost \in {0, 1}, skipped \in {0, 1}, dc \in {1, 2} :
        LET from == Max(upstream.sseq + 1, upstream.start)
            sseq == from + lost + skipped
            dseq == upstream.dseq + 1 + lost
        IN  /\ sseq <= MaxUpSeq
            /\ ArriveOn("source", m, sseq, MaxUpSeq - sseq, dseq, dc, source.sub)

\* A delivery of the consumer before the last reset, still on its way.
StaleDelivery ==
    /\ source.set
    /\ source.sub > 1
    /\ source.sub <= MaxResets
    /\ \E sseq \in 1 .. MaxUpSeq :
          ArriveOn("source", PlainMsg, sseq, MaxUpSeq - sseq, sseq, 1, source.sub - 1)

SourceIngest ==
    \E env \in StoreEnvs :
        processInboundSourceMsg(inbound.m, inbound.sseq, inbound.dseq, inbound.dc,
                                inbound.pending, inbound.sub, env)

NextSource ==
    \/ SourceDelivery
    \/ StaleDelivery
    \/ SourceIngest
    \/ internalSendLoop

SpecSource == InitSource /\ [][NextSource]_vars

\* The creation of the upstream consumer of a mirror or of a source on a
\* standalone stream: the reply to the create request comes, in any of its
\* forms, or does not come; the goroutine of the setup takes the response or
\* the timeout. A goroutine that can run is run and a timer that was started
\* fires; whether and when a reply comes is up to the upstream.
InitRetry == InitState({CfgMirror, CfgSource}, FALSE, FALSE)

CreateReply == \E i \in 1 .. MaxCreates, reply \in CreateReplies : createReply(i, reply)

CreateResponse == \E i \in 1 .. MaxCreates : createResponse(i)

CreateTimeout == \E i \in 1 .. MaxCreates : createTimeout(i)

NextRetry ==
    \/ CreateReply
    \/ CreateResponse
    \/ CreateTimeout
    \/ internalSendLoop

SpecRetry ==
    /\ InitRetry
    /\ [][NextRetry]_vars
    /\ WF_vars(CreateResponse)
    /\ WF_vars(CreateTimeout)
    /\ WF_vars(internalSendLoop)

\* The lifecycle of a stream with subjects, standalone or clustered: it is
\* told to lead or to follow, its subjects are updated, it is stopped; any
\* call to subscribeInternal may fail.
InitSubs == InitStream({CfgLimits}, FALSE) \/ InitStream({CfgLimits}, TRUE)

\* The subject lists an update may carry.
SubjectLists == SUBSET Subjects \ {{}}

SetLeader ==
    /\ \A s \in Subjects : csubs[s] < MaxHandlers
    /\ \E isLeaderNow \in BOOLEAN, done \in SUBSET Subjects : setLeader(isLeaderNow, done)

Update ==
    /\ \A s \in Subjects : csubs[s] < MaxHandlers
    /\ Len(sendq) <= MaxBacklog
    /\ \E new \in SubjectLists, done \in SUBSET Subjects, suppress \in BOOLEAN :
          (suppress => node) /\ update(new, done, suppress)

Stop ==
    /\ Len(sendq) <= MaxBacklog
    /\ \E deleteFlag, advisory \in BOOLEAN : stop(deleteFlag, advisory)

NextSubs ==
    \/ SetLeader
    \/ Update
    \/ Stop
    \/ leaderChange
    \/ internalSendLoop

SpecSubs == InitSubs /\ [][NextSubs]_vars

\* The deduplication window of a plain stream that is, besides, restarted on
\* its store now and then.
Recover ==
    \E seqs \in SUBSET store.msgs :
    \E ids \in [seqs -> MsgIds], ts \in {Max(now - 1, 0)} :
        rebuildDedupe(seqs, ids, ts)

NextRecover ==
    \/ PublishId
    \/ Ingest
    \/ purgeMsgIds
    \/ purge
    \/ Recover
    \/ internalSendLoop
    \/ Tick

SpecRecover == InitDedup /\ [][NextRecover]_vars

\* The send loop of a stream that is told to lead or follow, updated and
\* stopped, on a server that may shut down. The loop is a goroutine of its
\* own: it takes a round whenever it can.
NextPump ==
    \/ SetLeader
    \/ Update
    \/ Stop
    \/ leaderChange
    \/ quit
    \/ internalSendLoop

SpecPump == InitSubs /\ [][NextPump]_vars /\ WF_vars(internalSendLoop)

\* The teardown of a stream with subjects, of a mirror and of a stream with a
\* source, standalone or clustered, with consumers and a dedup window: it is
\* stopped or deleted, possibly more than once.
InitStop ==
    InitStream({CfgLimits, CfgMirror, CfgSource}, FALSE) \/ InitStream({CfgLimits, CfgSource}, TRUE)

\* A publish with an id on a subject the stream is subscribed to.
PublishSubscribed ==
    /\ active
    /\ \E s \in subjects : csubs[s] > 0
    /\ PublishId

NextStop ==
    \/ PublishSubscribed
    \/ Ingest
    \/ AddConsumer
    \/ Stop
    \/ leaderChange
    \/ internalSendLoop

SpecStop == InitStop /\ [][NextStop]_vars

\* A replica of a clustered stream applies the entries of the consensus log
\* in the order of their proposal, leading or following, consumers coming and
\* going.
InitApply == InitStream({CfgInterest, CfgLimits}, TRUE)

Propose ==
    /\ clseq < MaxProposals
    /\ \E m \in Msgs : propose(m)

Apply == \E env \in StoreEnvs : applyEntry(inbound.m, inbound.sseq, now, env)

NextApply ==
    \/ Propose
    \/ Apply
    \/ AddConsumer
    \/ DelConsumer
    \/ leaderChange
    \/ internalSendLoop

SpecApply == InitApply /\ [][NextApply]_vars

\* A stream is purged while publishes with ids arrive and consumers come and
\* go; it may be stopped.
PurgeEnd == \E env \in {"ok", "storeErr"} : purgeEnd(env)

PurgePublish == store.LastSeq < MaxSeq /\ PublishSubscribed

NextPurge ==
    \/ PurgePublish
    \/ Ingest
    \/ AddConsumer
    \/ DelConsumer
    \/ purgeBegin
    \/ PurgeEnd
    \/ Stop
    \/ internalSendLoop

SpecPurge == InitDedup /\ [][NextPurge]_vars

\* The configs addStream and update are called with: for the second stream
\* of the account the empty config with one of these fields set, or a mirror
\* that has subjects or sources as well ...
ConfigChanges ==
    {<<"Subjects", S>> : S \in {{"a"}, {"c"}, {">"}, {"$JS.API.x"}}}
    \cup {<<"Mirror", [NoMirror EXCEPT !.Name = "U"]>>,
          <<"Mirror", [NoMirror EXCEPT !.Name = "U", !.FilterSubject = "a"]>>,
          <<"Mirror", [NoMirror EXCEPT !.Name = "U", !.OptStartSeq = 1, !.OptStartTime = 1]>>,
          <<"Sources", {"U"}>>, <<"Storage", MemoryStorage>>,
          <<"Retention", InterestPolicy>>, <<"MaxConsumers", 1>>, <<"Replicas", 3>>,
          <<"Replicas", StreamMaxReplicas + 1>>, <<"Template", "tpl">>}

ConfigsOf(name) ==
    LET none == [NoConfig EXCEPT !.Name = name]
        mirrored == [none EXCEPT !.Mirror = [NoMirror EXCEPT !.Name = "U"]]
    IN  {none} \cup {[none EXCEPT ![ch[1]] = ch[2]] : ch \in ConfigChanges}
        \cup {[mirrored EXCEPT !.Subjects = {"c"}], [mirrored EXCEPT !.Sources = {"U"}]}

\* ... and for the stream there is, its own config and one with other subjects.
Configs ==
    ConfigsOf("T")
    \cup {[NoConfig EXCEPT !.Name = StreamName, !.Subjects = S] : S \in {Subjects, {"c"}}}

AddStream == \E c \in Callers, config \in Configs : addStream(c, config)

AddStreamSetup ==
    \E c \in Callers, env \in {"ok", "storeErr", "leaderErr"} : addStreamSetup(c, env)

UpdateStream == \E name \in DOMAIN jsa, config \in Configs : updateStream(name, config)

StopStream == \E name \in DOMAIN jsa : stopStream(name)

\* Concurrent addStream calls on an account that has one stream.
InitAccount == InitStream({CfgLimits}, FALSE)

NextAdd ==
    \/ AddStream
    \/ AddStreamSetup

SpecAdd == InitAccount /\ [][NextAdd]_vars

\* The streams of an account are created, updated and stopped.
NextAccount ==
    \/ AddStream
    \/ AddStreamSetup
    \/ UpdateStream
    \/ StopStream

SpecAccount == InitAccount /\ [][NextAccount]_vars

\* Two client connections publish to a standalone stream at the same time:
\* each runs the handler once, on a message with or without an id; the store
\* may fail and the account may be over its limits.
InitConc == InitWith({CfgLimits})

StoreAssume == \E p \in Producers, m \in IdMsgs : storeAssume(p, m)

StoreRawMsgCall == \E p \in Producers, env \in StoreEnvs : storeRawMsg(p, env)

StoreReturn == \E p \in Producers : storeReturn(p)

NextConc ==
    \/ StoreAssume
    \/ StoreRawMsgCall
    \/ StoreReturn
    \/ internalSendLoop

SpecConc == InitConc /\ [][NextConc]_vars

\* A clustered mirror or stream with a source that is told to follow and to
\* lead again, or is stopped, while the goroutines of its consumer setups
\* await the create response or their timeout.
InitLead == InitState({CfgMirror, CfgSource}, TRUE, FALSE)

SetLeaderUpstream ==
    /\ Len(sendq) <= MaxBacklog
    /\ \E isLeaderNow \in BOOLEAN : setLeaderUpstream(isLeaderNow)

NextLead ==
    \/ SetLeaderUpstream
    \/ CreateReply
    \/ CreateResponse
    \/ CreateTimeout
    \/ Stop
    \/ leaderChange
    \/ internalSendLoop

SpecLead == InitLead /\ [][NextLead]_vars

\* A mirror or a stream with a source, standalone or clustered, with a
\* delivery of its upstream consumer on its way: before the callback runs
\* the stream may be stopped or told to follow, or the consumer setup may be
\* cancelled by its create response or started over by its timeout.
InitStale ==
    \/ InitState({CfgMirror, CfgSource}, FALSE, FALSE)
    \/ InitState({CfgMirror, CfgSource}, TRUE, FALSE)

StepDown ==
    /\ Len(sendq) <= MaxBacklog
    /\ setLeaderUpstream(FALSE)

\* The callback of the delivery subscription is invoked, which it is only
\* while the subscription stands: with the next message of the upstream
\* consumer, or the one after a lost delivery.
UpstreamDelivery ==
    /\ store.LastSeq < MaxInFlight - 1
    /\ \E lost \in {0, 1} :
         IF cfg.Mirror
         THEN /\ mirror.set
              /\ mirror.sub \in 1 .. MaxResets
              /\ ArriveOn("mirror", PlainMsg, store.LastSeq + 1 + lost, 0, 0, 0, mirror.sub)
         ELSE LET sseq == Max(upstream.sseq + 1, upstream.start) + lost IN
              /\ source.set /\ source.live
              /\ source.sub \in 1 .. MaxResets
              /\ sseq <= MaxInFlight
              /\ ArriveOn("source", PlainMsg, sseq, 0, upstream.dseq + 1 + lost, 1, source.sub)

NextStale ==
    \/ UpstreamDelivery
    \/ MirrorIngest
    \/ SourceIngest
    \/ StepDown
    \/ Stop
    \/ CreateReply
    \/ CreateResponse
    \/ CreateTimeout
    \/ internalSendLoop

SpecStale == InitStale /\ [][NextStale]_vars

\* A standalone mirror fed in order by its upstream consumer, the store
\* taking every message; the consumer is set up again by the timeout of a
\* setup or by a restart of the leader (told to follow, then to lead).
InitMirror == InitState({CfgMirror}, FALSE, FALSE)

MirrorStore ==
    processInboundMirrorMsg(inbound.m, inbound.sseq, now, inbound.pending, inbound.sub, "ok")

NextMirror ==
    \/ deliverInOrder
    \/ MirrorStore
    \/ CreateTimeout
    \/ SetLeaderUpstream
    \/ internalSendLoop

\* Deliveries, the callback and the send loop run whenever they can; a
\* timeout or a restart need not happen.
SpecMirror ==
    /\ InitMirror
    /\ [][NextMirror]_vars
    /\ WF_vars(deliverInOrder)
    /\ WF_vars(MirrorStore)
    /\ WF_vars(internalSendLoop)

\* A replica of a clustered stream applies the entries of the consensus log
\* as they are committed, the clock advancing, the window's timer firing,
\* consumers coming and going; then the same log is applied from the start
\* on an empty store, at its own times and with its own consumers.
InitReplay == InitStream({CfgInterest, CfgLimits}, TRUE)

ApplyNew ==
    /\ Len(rlog.log) < MaxProposals
    /\ Len(sendq) <= MaxBacklog
    /\ \E m \in IdMsgs : applyNew(m)

ReplayEntry ==
    /\ Len(sendq) <= MaxBacklog
    /\ replayEntry

NextReplay ==
    \/ ApplyNew
    \/ replayFromStart
    \/ ReplayEntry
    \/ purgeMsgIds
    \/ Tick
    \/ AddConsumer
    \/ DelConsumer
    \/ leaderChange
    \/ internalSendLoop

SpecReplay == InitReplay /\ [][NextReplay]_vars

\* A stream with subjects whose send loop has returned on the server's quit
\* channel while answers to rejected publishes piled up: the queue is full or
\* has up to MaxFree free places. The stream is stopped or deleted, possibly
\* more than once.
Backlog(n) ==
    [i \in 1 .. n |-> ErrorMsg("r", 400, "expected stream does not match", 0, "")]

InitFull ==
    \E free \in 0 .. MaxFree, clustered \in BOOLEAN :
        InitQueued({CfgLimits, CfgInterest}, clustered, TRUE, Backlog(msetSendQSize - free),
                   "exited")

StopLock == \E deleteFlag, advisory \in BOOLEAN : stopLock(deleteFlag, advisory)

NextFull ==
    \/ StopLock
    \/ stopSend
    \/ stopUnlock

\* A send that can complete does, and so does the return of stop.
SpecFull ==
    /\ InitFull
    /\ [][NextFull]_vars
    /\ WF_vars(stopSend)
    /\ WF_vars(stopUnlock)

\* ---------------------------------------------------------------- properties
\* The step is a run of the ingest pipeline on the inbound message.
IngestStep == inbound.kind # "none" /\ call'.op \in {"publish", "mirror"}

\* The step is the run of a publish received on one of the stream's subjects.
PublishStep == inbound.kind = "publish" /\ call'.op = "publish"

\* The proposed sequence the pipeline is entered with.
LseqIn == IF inbound.kind = "mirror" THEN inbound.sseq - 1 ELSE 0

\* Whether a run's effects include the store call op.
Has(ev, op) == \E i \in 1 .. Len(ev) : ev[i].op = op

\* The positions of a run's store calls that returned successfully.
Stored(ev) == {i \in 1 .. Len(ev) : ev[i].op \in {"StoreRawMsg", "SkipMsg"} /\ ev[i].ok}

\* The publish acks a run enqueued, in order.
PubAcks(ev) == SelectSeq(Sends(ev), LAMBDA x : x.kind = "puback")

\* The inbound message carries an id that the dedup map holds.
KnownId == inbound.m.msgId # "" /\ inbound.m.msgId \in DOMAIN ddmap

\* C1: when a publish carrying a non-empty Nats-Msg-Id is accepted as new and
\* an earlier publish with the same id was accepted as new since the last
\* stream purge, at least the dedup window lies between the two.
C1_OneAcceptPerWindow ==
    [][(PublishStep /\ inbound.m.msgId # "" /\ AcceptedAsNew(call')
        /\ accepted[inbound.m.msgId] # Never)
       => now - accepted[inbound.m.msgId] >= cfg.Duplicates]_vars

\* What C2 says a duplicate causes: no store call, lseq and lmsgId as they
\* were, clfs one higher and, when a response is allowed, exactly one publish
\* ack with the sequence of the ddmap entry and duplicate = true.
DuplicateEffects ==
    /\ ~Has(call'.ev, "StoreRawMsg")
    /\ ~Has(call'.ev, "SkipMsg")
    /\ lseq' = lseq
    /\ lmsgId' = lmsgId
    /\ clfs' = clfs + 1
    /\ canRespond(inbound.m) =>
         PubAcks(call'.ev) = <<PubAckMsg(inbound.m.reply, ddmap[inbound.m.msgId].seq, TRUE)>>

\* C2 as stated: every run of the pipeline on a message whose Nats-Msg-Id is
\* in ddmap has the effects of a duplicate.
C2_DuplicateAnswered ==
    [][(IngestStep /\ KnownId) => DuplicateEffects]_vars

\* C2, amended: a run of the pipeline on a message whose Nats-Msg-Id is in
\* ddmap and whose proposed sequence, if any, equals lseq + clfs has the
\* effects of a duplicate.
C2_DuplicatePastSequenceCheck ==
    [][(IngestStep /\ KnownId /\ ~(LseqIn > 0 /\ LseqIn # lseq + clfs))
       => DuplicateEffects]_vars

\* C2 witness: a run answered a duplicate with the recorded sequence.
C2_DuplicateSeen ==
    /\ call.op \in {"publish", "mirror"}
    /\ call.err = "msgid is duplicate"
    /\ Len(PubAcks(call.ev)) = 1
    /\ PubAcks(call.ev)[1].dup
    /\ PubAcks(call.ev)[1].seq > 0
    /\ clfs > 0

\* C3: a publish carrying Nats-Expected-Last-Sequence = k >= 0 that passes the
\* duplicate and expected-stream checks passes this check when lseq = k and
\* otherwise is rejected with 400 'wrong last sequence: <lseq>', with nothing
\* stored and lseq unchanged.
C3_ExpectedLastSeq ==
    [][(PublishStep /\ inbound.m.expLastSeq # NoHdrSeq /\ ~KnownId
        /\ inbound.m.expStream \in {"", cfg.Name})
       => IF lseq = inbound.m.expLastSeq
          THEN call'.err # "last sequence mismatch"
          ELSE /\ call'.err = "last sequence mismatch"
               /\ lseq' = lseq
               /\ store' = store
               /\ canRespond(inbound.m) =>
                    Sends(call'.ev) = <<ErrorMsg(inbound.m.reply, 400, "wrong last sequence",
                                                 lseq, "")>>]_vars

\* C4: the store's last sequence never goes back; every run of the pipeline
\* that stores or skips does so at a sequence above every sequence assigned
\* before, which becomes the store's last; and when a run returns (accept,
\* skip or rejection) lseq equals the store's last sequence.
C4_SequencesIncrease ==
    [][/\ store'.LastSeq >= store.LastSeq
       /\ IngestStep =>
            /\ lseq' = store'.LastSeq
            /\ \A i \in Stored(call'.ev) :
                  /\ call'.ev[i].seq > store.LastSeq
                  /\ call'.ev[i].seq > lseq
                  /\ call'.ev[i].seq = store'.LastSeq]_vars

\* C4 witness: a second message has been accepted, at sequence 2.
C4_SecondAccepted ==
    /\ call.op = "publish"
    /\ AcceptedAsNew(call)
    /\ store.FirstSeq = 1
    /\ lseq = 2
    /\ store.LastSeq = 2

C6_NotifyAfterAppend ==
    [][IngestStep =>
         /\ \A i \in 1 .. Len(call'.ev) :
               call'.ev[i].op = "notify"
               => \E j \in 1 .. i - 1 :
                     /\ call'.ev[j].op = "StoreRawMsg"
                     /\ call'.ev[j].ok
                     /\ call'.ev[j].seq = call'.ev[i].seq
         /\ (call'.err # "" \/ Has(call'.ev, "SkipMsg") \/ Has(call'.ev, "RemoveMsg"))
            => ~Has(call'.ev, "notify")]_vars

\* C6 witness: a consumer has been notified of a stored sequence.
C6_Notified ==
    /\ call.op = "publish"
    /\ \E i \in 1 .. Len(call.ev) :
          call.ev[i].op = "notify" /\ call.ev[i].who = "c1" /\ call.ev[i].seq = store.LastSeq

\* The six ingest checks in the order C7 gives, each as the specification
\* words its violation, on the inbound message in the state the run starts in.
Violations ==
    <<LseqIn > 0 /\ LseqIn # lseq + clfs,
      KnownId,
      inbound.m.expStream # "" /\ inbound.m.expStream # cfg.Name,
      inbound.m.expLastSeq # NoHdrSeq /\ inbound.m.expLastSeq # lseq,
      inbound.m.expLastMsgId # "" /\ inbound.m.expLastMsgId # lmsgId,
      cfg.MaxMsgSize >= 0 /\ HdrLen(inbound.m) + inbound.m.msgLen > cfg.MaxMsgSize>>

Violated == {i \in 1 .. 6 : Violations[i]}

\* The error each check returns and the description of its reply (the reply
\* of the second is the duplicate's publish ack).
CheckErrors ==
    <<"errLastSeqMismatch", "msgid is duplicate", "expected stream does not match",
      "last sequence mismatch", "last msgid mismatch", "ErrMaxPayload">>

CheckReplies ==
    <<"expected stream sequence does not match", "", "expected stream does not match",
      "wrong last sequence", "wrong last msg ID", "message size exceeds maximum allowed">>

\* The run answered with the error and the reply of the first violated check
\* and counted the message in clfs at most once.
FirstViolatedAnswers ==
    LET f == Min(Violated) IN
    /\ call'.err = CheckErrors[f]
    /\ clfs' <= clfs + 1
    /\ canRespond(inbound.m) =>
         /\ Sends(call'.ev) # << >>
         /\ Sends(call'.ev)[1].subj = inbound.m.reply
         /\ IF f = 2 THEN Sends(call'.ev)[1].dup
                     ELSE Sends(call'.ev)[1].desc = CheckReplies[f]

\* A mirror's first message may move the stream to the proposed sequence.
MirrorStart == cfg.Mirror /\ store.FirstSeq = 0

\* C7: a message that violates several of the checks (proposed-sequence
\* mismatch, msg-id duplicate, expected stream, expected last sequence,
\* expected last msg id, size cap) gets the reply and the error of the first
\* of them in this order, and clfs goes up by at most one.
C7_FirstViolatedCheckAnswers ==
    [][(IngestStep /\ ~MirrorStart /\ Cardinality(Violated) >= 2)
       => FirstViolatedAnswers]_vars

\* C7, apart from Nats-Expected-Last-Sequence: 0 (see C3): the same for the
\* messages that do not carry that header value.
C7_OrderWithoutExpectedSeqZero ==
    [][(IngestStep /\ ~MirrorStart /\ Cardinality(Violated) >= 2
        /\ inbound.m.expLastSeq # 0)
       => FirstViolatedAnswers]_vars

\* C8, the size cap under overlapping publishes: the rejection returns
\* ErrMaxPayload, replies 400 'message size exceeds maximum allowed' when a
\* response is allowed, writes nothing to the store, leaves lseq, lmsgId and
\* the dedup window as they are, leaves the mutex free and raises clfs by
\* exactly one.
C8_SizeCapRejection ==
    [][\A p \in Producers :
         (pubs[p].pc = "store" /\ pubs'[p].pc = "done")
         => /\ call'.err = "ErrMaxPayload"
            /\ canRespond(pubs[p].m) =>
                 Sends(call'.ev) = <<ErrorMsg(pubs[p].m.reply, 400,
                                              "message size exceeds maximum allowed", 0, "")>>
            /\ store' = store
            /\ lseq' = lseq
            /\ lmsgId' = lmsgId
            /\ ddmap' = ddmap
            /\ ddarr' = ddarr
            /\ mu' = "unlocked"
            /\ clfs' = clfs + 1]_vars

\* C8 witness of the divergence: two size-cap rejections have returned and
\* clfs has gone up by one.
C8_LostIncrement ==
    /\ \A p \in Producers : pubs[p].pc = "done"
    /\ clfs = 1

\* C8 when publishes do not overlap: a publish rejected for an expected-stream
\* mismatch, an expected-last-msg-id mismatch or the size cap replies 400 with
\* the description of that check when a response is allowed, writes nothing to
\* the store, leaves lseq, lmsgId and the dedup window as they are, raises clfs
\* by exactly one and leaves the mutex free.
C8_RejectionInSequence ==
    [][(PublishStep /\ call'.err \in {CheckErrors[3], CheckErrors[5], CheckErrors[6]})
       => /\ \E f \in {3, 5, 6} :
                /\ call'.err = CheckErrors[f]
                /\ canRespond(inbound.m) =>
                     /\ Len(Sends(call'.ev)) = 1
                     /\ Sends(call'.ev)[1].subj = inbound.m.reply
                     /\ Sends(call'.ev)[1].code = 400
                     /\ Sends(call'.ev)[1].desc = CheckReplies[f]
          /\ store' = store
          /\ lseq' = lseq
          /\ lmsgId' = lmsgId
          /\ ddmap' = ddmap
          /\ ddarr' = ddarr
          /\ ddtmr' = ddtmr
          /\ clfs' = clfs + 1
          /\ mu' = "unlocked"]_vars

C10_InterestedConsumerStores ==
    [][(PublishStep /\ cfg.Retention = InterestPolicy
        /\ \E o \in consumers :
              o.FilterSubject = "" \/ subjectIsSubsetMatch(inbound.m.subject, o.FilterSubject))
       => /\ ~Has(call'.ev, "SkipMsg")
          /\ call'.err = "" => Has(call'.ev, "StoreRawMsg")]_vars

\* C10 witness of the divergence: a publish has been skipped on a stream that
\* has a consumer without a filter subject.
C10_SkippedDespiteUnfiltered ==
    /\ call.op = "publish"
    /\ cfg.Retention = InterestPolicy
    /\ Has(call.ev, "SkipMsg")
    /\ \E o \in consumers : o.FilterSubject = ""

\* The delivery is a mirror's first, whose proposed sequence the stream adopts.
Adjusts == MirrorStart /\ LseqIn > 0 /\ LseqIn # lseq + clfs

\* The run called the store's append and the store returned an error.
StoreFailed(ev) == \E i \in 1 .. Len(ev) : ev[i].op = "StoreRawMsg" /\ ~ev[i].ok

\* C11: when the store's append returns an error, lseq and lmsgId are what
\* they were before the publish, the id is not recorded in the dedup window,
\* no consumer is notified, clfs is unchanged, the store holds what it held
\* and, when a response is allowed, the publisher gets one 503 reply with the
\* store's error text.
C11_StoreErrorRollsBack ==
    [][(PublishStep /\ StoreFailed(call'.ev))
       => /\ lseq' = lseq
          /\ lmsgId' = lmsgId
          /\ ddmap' = ddmap
          /\ ddarr' = ddarr
          /\ ddtmr' = ddtmr
          /\ ~Has(call'.ev, "storeMsgId")
          /\ ~Has(call'.ev, "notify")
          /\ clfs' = clfs
          /\ store' = store
          /\ call'.err = "store error"
          /\ Sends(call'.ev) = IF canRespond(inbound.m)
                               THEN <<ErrorMsg(inbound.m.reply, 503, "store error", 0, "")>>
                               ELSE << >>]_vars

\* C11 witness: the append of a message with an id failed on a stream that had
\* accepted another id before and has a consumer, and the publisher was told.
C11_StoreErrorSeen ==
    /\ call.op = "publish"
    /\ StoreFailed(call.ev)
    /\ lseq = 1
    /\ lmsgId # ""
    /\ consumers # {}
    /\ \E i \in 1 .. Len(call.ev) : call.ev[i].op = "send" /\ call.ev[i].msg.code = 503

\* C12: when the account's limits are exceeded after a successful append, the
\* message just stored is removed from the store, the publisher gets the 400
\* reply 'resource limits exceeded for account' when a response is allowed and
\* no publish ack, the id is not recorded in the dedup window and no consumer
\* is notified.
C12_LimitsExceededRemoves ==
    [][(PublishStep /\ Has(call'.ev, "RemoveMsg"))
       => /\ \E i, j \in 1 .. Len(call'.ev) :
                /\ i < j
                /\ call'.ev[i].op = "StoreRawMsg" /\ call'.ev[i].ok
                /\ call'.ev[j].op = "RemoveMsg"
                /\ call'.ev[j].seq = call'.ev[i].seq
                /\ call'.ev[j].seq \notin store'.msgs
          /\ store'.msgs = store.msgs
          /\ PubAcks(call'.ev) = << >>
          /\ Sends(call'.ev) = IF canRespond(inbound.m)
                               THEN <<ErrorMsg(inbound.m.reply, 400,
                                               "resource limits exceeded for account", 0, "")>>
                               ELSE << >>
          /\ ~Has(call'.ev, "storeMsgId")
          /\ ddmap' = ddmap
          /\ ddarr' = ddarr
          /\ ~Has(call'.ev, "notify")]_vars

\* C12 witness: a message with an id was stored and removed for exceeded
\* limits on a stream that has a consumer, and the publisher got the 400.
C12_LimitsExceededSeen ==
    /\ call.op = "publish"
    /\ Has(call.ev, "RemoveMsg")
    /\ lmsgId # ""
    /\ consumers # {}
    /\ \E i \in 1 .. Len(call.ev) :
          call.ev[i].op = "send" /\ call.ev[i].msg.desc = "resource limits exceeded for account"

\* The step is the subject callback's run on a publish, ignored or processed.
PublishSeen == inbound.kind = "publish" /\ call'.op \in {"publish", "ignored"}

\* C13: a publish gets no response of any kind when no_ack is set, when its
\* reply subject is empty or when the stream does not lead; in every other case
\* exactly one response is enqueued, to its reply subject, and nothing else.
C13_OneResponseOrNone ==
    [][PublishSeen =>
         /\ sendq' = sendq \o Sends(call'.ev)
         /\ IF cfg.NoAck \/ inbound.m.reply = "" \/ ~isLeader
            THEN Sends(call'.ev) = << >>
            ELSE /\ Len(Sends(call'.ev)) = 1
                 /\ Sends(call'.ev)[1].subj = inbound.m.reply
                 /\ Sends(call'.ev)[1].kind \in {"puback", "error"}]_vars

\* C13 witness: a publish without a reply subject was stored and not answered.
C13_NoReplySubject ==
    /\ call.op = "publish"
    /\ ~cfg.NoAck
    /\ Has(call.ev, "StoreRawMsg")
    /\ Sends(call.ev) = << >>

\* C13, the stream that does not lead: a publish with a reply subject on an
\* acking stream has been ignored.
C13_IgnoredByFollower ==
    /\ call.op = "ignored"
    /\ node /\ ~leader
    /\ ~cfg.NoAck
    /\ sendq = << >>

\* The step is the run of the mirror callback on a delivery.
MirrorStep == inbound.kind = "mirror" /\ call'.op = "mirror"

\* C14: every message a standalone mirror stores is stored at the local
\* sequence equal to its upstream sequence and, unless removed for exceeded
\* limits, is then held by the store at that sequence.
C14_MirrorKeepsSequences ==
    [][MirrorStep =>
         \A i \in 1 .. Len(call'.ev) :
            (call'.ev[i].op = "StoreRawMsg" /\ call'.ev[i].ok)
            => /\ call'.ev[i].seq = inbound.sseq
               /\ (~Has(call'.ev, "RemoveMsg") => inbound.sseq \in store'.msgs)]_vars

\* C14, while no delivery has been rejected by a check that counts in clfs
\* and for upstream sequences above 1 (whose proposed sequence is not zero):
\* the mirror stores at the upstream sequence.
C14_SequencesKeptWhileNoneRejected ==
    [][(MirrorStep /\ clfs = 0 /\ inbound.sseq > 1) =>
         \A i \in 1 .. Len(call'.ev) :
            (call'.ev[i].op = "StoreRawMsg" /\ call'.ev[i].ok)
            => call'.ev[i].seq = inbound.sseq]_vars

\* The delivery's proposed sequence is present and differs from lseq + clfs.
ProposedDiffers == LseqIn > 0 /\ LseqIn # lseq + clfs

\* What a sequence mismatch causes: nothing stored, lseq and clfs as they
\* were, the 503 reply when a response is allowed, errLastSeqMismatch returned
\* and the mirror consumer reset: a new subscription and, after the reply, the
\* delete of the old durable and the create request.
MismatchEffects ==
    /\ Stored(call'.ev) = {}
    /\ ~Has(call'.ev, "Compact")
    /\ store' = store
    /\ lseq' = lseq
    /\ clfs' = clfs
    /\ call'.err = "errLastSeqMismatch"
    /\ mirror'.sub = mirror.sub + 1
    /\ LET sends == Sends(call'.ev)
           reqs == IF canRespond(inbound.m) THEN Tail(sends) ELSE sends
       IN  /\ canRespond(inbound.m) =>
                /\ sends # << >>
                /\ sends[1] = ErrorMsg(inbound.m.reply, 503,
                                       "expected stream sequence does not match", 0, "")
           /\ Len(reqs) = 2
           /\ reqs[1].subj = "CONSUMER.DELETE"
           /\ reqs[2].subj = "CONSUMER.DURABLE.CREATE"

\* What the adjustment of a mirror's start causes: the store compacted to
\* p + 1 before anything else ...
StartAdjusted ==
    /\ call'.ev # << >>
    /\ call'.ev[1].op = "Compact"
    /\ call'.ev[1].seq = LseqIn + 1
    /\ call'.err # "errLastSeqMismatch"
    /\ mirror'.sub = mirror.sub

\* ... and the message stored at p + 1.
StoredAtProposed ==
    /\ \E i \in Stored(call'.ev) : call'.ev[i].seq = LseqIn + 1
    /\ lseq' = LseqIn + 1
    /\ store'.LastSeq = LseqIn + 1
    /\ ~Has(call'.ev, "RemoveMsg") => store'.msgs = {LseqIn + 1}

\* C15 as stated: a mirror whose store holds no message adjusts and stores
\* the message at p + 1; every other stream answers a sequence mismatch.
C15_MismatchOrAdjust ==
    [][(MirrorStep /\ ProposedDiffers)
       => IF cfg.Mirror /\ store.msgs = {}
          THEN StartAdjusted /\ StoredAtProposed
          ELSE MismatchEffects]_vars

\* C15, amended: a mirror whose store never held a message (first sequence
\* 0) compacts to p + 1, sets lseq to p and passes the message on to the
\* remaining checks: when they accept it and the append succeeds, it is
\* stored at p + 1, otherwise lseq stays at p with nothing stored; every
\* other stream answers a sequence mismatch.
C15_MismatchOrAdjustNewMirror ==
    [][(MirrorStep /\ ProposedDiffers)
       => IF cfg.Mirror /\ store.FirstSeq = 0
          THEN /\ StartAdjusted
               /\ IF call'.err = ""
                  THEN StoredAtProposed
                  ELSE /\ lseq' = LseqIn
                       /\ store'.msgs = {}
                       /\ store'.LastSeq = LseqIn
          ELSE MismatchEffects]_vars

\* C15 witness: a new mirror has adopted proposed sequence 1 and stored the
\* delivery of upstream sequence 2 at sequence 2.
C15_StartAdjustedSeen ==
    /\ call.op = "mirror"
    /\ call.err = ""
    /\ call.ev[1].op = "Compact"
    /\ store.FirstSeq = 2
    /\ store.msgs = {2}
    /\ lseq = 2

\* What a run published to the subject subj, in order.
SentTo(ev, subj) == SelectSeq(Sends(ev), LAMBDA x : x.subj = subj)

\* The empty message that acknowledges a delivery.
AckMsg(reply) == [NoMsg EXCEPT !.subj = reply, !.kind = "ack"]

\* C16: a mirror delivery is acknowledged on its reply subject when its
\* ingest succeeded, and when the ingest failed nothing is published to the
\* reply subject.
C16_AckIffIngested ==
    [][MirrorStep =>
         IF call'.err = ""
         THEN \E i \in 1 .. Len(SentTo(call'.ev, inbound.m.reply)) :
                 SentTo(call'.ev, inbound.m.reply)[i] = AckMsg(inbound.m.reply)
         ELSE SentTo(call'.ev, inbound.m.reply) = << >>]_vars

\* C16 witness of the divergence: a delivery that failed has had an error
\* reply published to its reply subject.
C16_ErrorSentUpstream ==
    /\ call.op = "mirror"
    /\ call.err \in {"msgid is duplicate", "ErrMaxPayload", "store error", "errLastSeqMismatch"}
    /\ SentTo(call.ev, "r") # << >>

\* C16 on a delivery whose ingest returned an error: the empty ack is not
\* sent.
C16_NoAckOnError ==
    [][(MirrorStep /\ call'.err # "")
       => \A i \in 1 .. Len(Sends(call'.ev)) : Sends(call'.ev)[i].kind # "ack"]_vars

\* The step is a run of the source's delivery callback on the inbound delivery.
SourceStep == inbound.kind = "source" /\ call'.op = "source"

\* The delivery is on the current subscription, is no redelivery, and its
\* delivery sequence is not the one after the last the source accepted.
SourceGap ==
    /\ inbound.sub = source.sub
    /\ inbound.dc <= 1
    /\ inbound.dseq # source.dseq + 1

\* The requests to create the upstream consumer a run enqueued.
CreateRequests(ev) == SelectSeq(Sends(ev), LAMBDA x : x.subj = "CONSUMER.DURABLE.CREATE")

\* The upstream sequence a create request starts the consumer at.
StartOf(req) == IF req.desc = "DeliverAll" THEN 1 ELSE req.seq

\* The run wrote nothing to the store and sent no ack upstream.
NotIngested ==
    /\ store' = store
    /\ lseq' = lseq
    /\ ~Has(call'.ev, "StoreRawMsg") /\ ~Has(call'.ev, "SkipMsg")
    /\ SentTo(call'.ev, inbound.m.reply) = << >>

\* The run tore the upstream consumer down and asked for it once more.
Recreated ==
    /\ source'.sub # source.sub
    /\ Len(SentTo(call'.ev, "CONSUMER.DELETE")) = 1
    /\ Len(CreateRequests(call'.ev)) = 1

\* C17: a source delivery on a gap of the delivery sequence is not ingested
\* (no store write, lseq unchanged, no ack upstream); the upstream consumer is
\* torn down and recreated starting at the upstream sequence after that of
\* the last delivery accepted from the source.
C17_GapRestartsAfterLastAccepted ==
    [][SourceStep /\ SourceGap =>
          /\ NotIngested
          /\ Recreated
          /\ StartOf(CreateRequests(call'.ev)[1]) = upstream.last + 1]_vars

\* Supporting C17: a delivery on a gap is never ingested and the consumer is
\* recreated, starting after the sequence the source tracks (si.sseq + 1).
C17_GapNeverIngested ==
    [][SourceStep /\ SourceGap =>
          /\ NotIngested
          /\ Recreated
          /\ StartOf(CreateRequests(call'.ev)[1]) = source.sseq + 1]_vars

\* Supporting C17: the tracked sequence is the upstream sequence of the last
\* accepted delivery as long as the upstream sequences accepted on the
\* current consumer are contiguous.
C17_TrackedIsLastWhileContiguous ==
    [][SourceStep /\ ~sourceDropped(source, inbound.sub, inbound.dc)
         /\ inbound.dseq = source.dseq + 1
         /\ (source.dseq > 0 => source.sseq = upstream.last /\ inbound.sseq = upstream.last + 1)
         => source'.sseq = upstream'.last /\ upstream'.last = inbound.sseq]_vars

\* A reset asked for a consumer that starts at or before the upstream
\* sequence of the last accepted delivery: that message is delivered again.
C17_RestartAtOrBeforeLastAccepted ==
    /\ call.op = "source"
    /\ Len(CreateRequests(call.ev)) = 1
    /\ upstream.last > 0
    /\ source.last > 0
    /\ StartOf(CreateRequests(call.ev)[1]) <= upstream.last

\* C18: a source delivery with a delivery count above one is dropped without
\* any effect: nothing is written to the store, lseq, lmsgId, clfs and the
\* dedup window are unchanged, the source's sseq, dseq, lag and last activity
\* (and its subscription) are unchanged, and nothing is enqueued - no ack
\* upstream, no delete or create request.
C18_RedeliveryDropped ==
    [][SourceStep /\ inbound.dc > 1 =>
          /\ call'.ev = << >>
          /\ call'.err = ""
          /\ UNCHANGED <<store, lseq, lmsgId, clfs, ddmap, ddarr, ddindex, ddtmr, source,
                         sendq, accepted>>]_vars

\* A redelivery on the current subscription, of the delivery sequence the
\* source expected next, has been dropped.
C18_RedeliveryDroppedSeen ==
    /\ call.op = "source"
    /\ call.ev = << >>
    /\ source.set
    /\ upstream.dseq = source.dseq + 1

\* The creation the i-th create request asked for has failed: its reply did
\* not decode, or an error response has come or has been taken.
CreateFailed(i) ==
    i <= Len(creates) /\ creates[i].st \in {"badjson", "resp_err", "failed"}

\* The consumer has been torn down and asked for again after the i-th request.
Reinstalled(i) == Len(creates) > i

\* C19: whenever the creation of the upstream consumer of a mirror or of a
\* source has failed - by the timeout, by a reply that does not decode or by
\* an error response - the stream, leading throughout, eventually tears the
\* consumer down and installs it again.
C19_FailedCreateRetried ==
    \A i \in 1 .. MaxCreates - 1 : CreateFailed(i) ~> Reinstalled(i)

\* Supporting C19: a reply that does not decode leads to a retry, through
\* the timeout of the goroutine that never gets a response.
C19_BadReplyRetried ==
    \A i \in 1 .. MaxCreates - 1 :
        (i <= Len(creates) /\ creates[i].st = "badjson") ~> Reinstalled(i)

\* Supporting C19: the timeout installs the consumer again in the same step.
C19_TimeoutRetries ==
    [][\A i \in 1 .. MaxCreates :
          (i <= Len(creates) /\ call'.op = "createTimeout" /\ creates'[i].st = "retried"
             /\ creates[i].st # "retried")
          => /\ Reinstalled(i)'
             /\ Len(CreateRequests(call'.ev)) = 1
             /\ Len(SentTo(call'.ev, "CONSUMER.DELETE")) = 1]_vars

\* An error response has been taken by the goroutine, which ended without
\* asking for the consumer again; no goroutine is left to do so.
C19_ApiErrorNotRetried ==
    /\ creates # << >>
    /\ creates[Len(creates)].st = "failed"
    /\ sendq = << >>

\* C20: the handlers installed on the stream's subjects are exactly one for
\* each configured subject while the stream is active, and none while it is
\* not, whatever set_leader, update and stop operations have run and
\* whichever of them failed part-way.
C20_SubscriptionsMatchActive ==
    \A s \in Subjects : csubs[s] = IF active /\ s \in subjects THEN 1 ELSE 0

\* Supporting C20: set_leader(true) on an active stream installs nothing.
C20_RepeatedLeadInstallsNothing ==
    [][call'.op = "setLeader" /\ active /\ active' => csubs' = csubs]_vars

\* Supporting C20: set_leader, update by a stream whose leadership and
\* activity agree, and stop keep the subscriptions as claimed when they
\* return no error.
C20_KeptWhenNothingFails ==
    [][(/\ C20_SubscriptionsMatchActive
        /\ call'.op \in {"setLeader", "update", "stop"}
        /\ call'.err = ""
        /\ (call'.op = "update" => active = isLeader))
       => C20_SubscriptionsMatchActive']_vars

\* A subject of an active stream has two handlers: every publish on it is
\* ingested twice.
C20_DuplicateHandler ==
    /\ active
    /\ client
    /\ \E s \in subjects : csubs[s] > 1

\* The step is a run of purgeMsgIds.
TimerStep == call'.op = "purgeMsgIds"

\* Nothing carrying an id has been accepted for the length of the window:
\* every entry of ddarr is as old as the window.
Quiet == \A i \in 1 .. Len(ddarr) : now - ddarr[i].ts >= cfg.Duplicates

\* C26: when nothing carrying an id has been published for the length of the
\* window, the purge timer's run leaves ddmap empty, ddarr without entries
\* from ddindex on, and the timer cancelled.
C26_EmptyAfterQuiet ==
    [][TimerStep /\ Quiet =>
          /\ ddmap' = << >>
          /\ ddindex' = Len(ddarr')
          /\ ddtmr' = NoTimer]_vars

\* Supporting C26: the map is emptied and the timer cancelled.
C26_MapEmptyAfterQuiet ==
    [][TimerStep /\ Quiet => ddmap' = << >> /\ ddtmr' = NoTimer]_vars

\* After a quiet window the timer has run and is cancelled, the map is empty,
\* and ddarr still holds every expired entry.
C26_ExpiredEntriesKept ==
    /\ call.op = "purgeMsgIds"
    /\ ddtmr = NoTimer
    /\ ddmap = << >>
    /\ Quiet
    /\ Len(ddarr) - ddindex > 0

\* C27: every entry of ddmap is an entry of ddarr at an index from ddindex
\* on, and ddindex lies within ddarr.
C27_MapWithinArray ==
    /\ ddindex >= 0
    /\ ddindex <= Len(ddarr)
    /\ \A id \in DOMAIN ddmap : \E i \in ddindex + 1 .. Len(ddarr) : ddarr[i] = ddmap[id]

\* The timer has advanced ddindex past expired entries while an id is still
\* in the window.
C27_AdvancedWithLiveEntry ==
    /\ call.op = "purgeMsgIds"
    /\ ddmap # << >>
    /\ ddindex > 0

\* The sequence a is the beginning of b.
IsPrefix(a, b) == Len(a) <= Len(b) /\ SubSeq(b, 1, Len(a)) = a

\* The nil sentinel is in the queue.
HasSentinel == \E i \in 1 .. Len(sendq) : sendq[i].kind = "nil"

\* The queue is taken from at its head only, one message a round, and every
\* other step leaves it alone or appends to it.
InOrder ==
    [][IF call'.op = "deliver"
       THEN sendq # << >> /\ call'.ev[1].msg = Head(sendq) /\ sendq' = Tail(sendq)
       ELSE IF call'.op = "sendLoopReturn"
       THEN sendq' = sendq \/ (sendq # << >> /\ sendq' = Tail(sendq))
       ELSE IsPrefix(sendq, sendq')]_vars

\* Without a quit signal the loop returns on reading the sentinel only, that
\* is when all that was enqueued before it has been handed over ...
ExitAtSentinel ==
    [][pump = "running" /\ pump' = "exited"
       => sendq # << >> /\ Head(sendq).kind = "nil" /\ sendq' = Tail(sendq)]_vars

\* ... and it gets there.
Drains == (pump = "running" /\ HasSentinel) ~> (pump # "running")

\* A loop that has returned stays so and takes nothing from the queue.
SilentAfterExit ==
    [][pump = "exited"
       => pump' = "exited" /\ call'.op # "deliver" /\ IsPrefix(sendq, sendq')]_vars

\* C29: the send loop hands the messages to the broker in the order of their
\* enqueueing; without a quit signal it hands over every message enqueued
\* before the nil sentinel and then returns; once it has returned, on the
\* sentinel or on the quit signal, it hands over nothing more, whatever is
\* left in the queue.
C29_InOrderUntilSentinel == InOrder /\ ExitAtSentinel /\ Drains /\ SilentAfterExit

\* C29 witness: the loop has returned and a later stop has enqueued messages
\* that stay in the queue.
C29_LeftAfterExit ==
    /\ pump = "exited"
    /\ ~client
    /\ Len(sendq) > 1

\* The place of an effect of stop in the order of the teardown. A request to
\* delete a durable is enqueued by unsubscribeToStream (4) and, when the
\* stream is deleted, once more after the node is gone (7).
StopFirst(e) ==
    CASE e.op = "delete(jsa.streams)" -> 1
      [] e.op = "stopWithFlags" -> 2
      [] e.op = "stopClusterSubs" -> 3
      [] e.op = "unsubscribeToStream" -> 4
      [] e.op = "close(qch)" -> 5
      [] e.op \in {"node.Delete", "node.Stop"} -> 6
      [] e.op = "send" /\ e.msg.kind = "request" -> 4
      [] e.op = "send" /\ e.msg.kind = "advisory" -> 8
      [] e.op = "send" /\ e.msg.kind = "nil" -> 9
      [] e.op = "ddtmr.Stop" -> 10
      [] e.op = "closeConnection" -> 11
      [] e.op \in {"store.Delete", "store.Stop"} -> 12
      [] OTHER -> 0

StopLast(e) == IF e.op = "send" /\ e.msg.kind = "request" THEN 7 ELSE StopFirst(e)

\* The effects of a stop(deleteFlag, advisory) are in the order of the
\* teardown, and they are those the flags ask for.
StopOrdered(ev, deleteFlag, advisory) ==
    /\ \A i \in 1 .. Len(ev) : StopFirst(ev[i]) > 0
    /\ \A i, j \in 1 .. Len(ev) : i < j => StopFirst(ev[i]) <= StopLast(ev[j])
    /\ \A i, j \in 1 .. Len(ev) :
          i < j /\ StopFirst(ev[i]) = StopLast(ev[i]) /\ StopFirst(ev[j]) = StopLast(ev[j])
             => StopFirst(ev[i]) # StopFirst(ev[j])
    /\ \A k \in {1, 2, 3, 4, 9} : \E i \in 1 .. Len(ev) : StopFirst(ev[i]) = k
    /\ (\E i \in 1 .. Len(ev) : StopFirst(ev[i]) = 8) <=> (deleteFlag /\ advisory)
    /\ (deleteFlag /\ cfg.Sources)
          => \E i \in 1 .. Len(ev) :
                /\ StopLast(ev[i]) = 7
                /\ \A j \in 1 .. Len(ev) : StopLast(ev[j]) <= 6 => j < i
    /\ ~deleteFlag
          => \A i, j \in 1 .. Len(ev) : i < j /\ StopFirst(ev[i]) \in {5, 6} => StopLast(ev[j]) # 7
    /\ \A i \in 1 .. Len(ev) : ev[i].op = "store.Delete" => deleteFlag
    /\ \A i \in 1 .. Len(ev) : ev[i].op = "store.Stop" => ~deleteFlag

\* C28: stop tears the stream down in a fixed order: it leaves the account's
\* map, the consumers are stopped, the cluster and the subject subscriptions
\* removed, the quit channel closed, the node stopped or deleted, the
\* requests to delete the sources' durables enqueued (delete only), then the
\* delete advisory (if asked for), then the nil sentinel, the dedup timer
\* stopped, the clients closed and last the store stopped or deleted. Nothing
\* is enqueued after the sentinel, and when the store is stopped no subject
\* handler is left.
C28_TeardownOrder ==
    [][\A deleteFlag, advisory \in BOOLEAN :
          stop(deleteFlag, advisory)
          => /\ StopOrdered(call'.ev, deleteFlag, advisory)
             /\ Sends(call'.ev)[Len(Sends(call'.ev))].kind = "nil"
             /\ StopFirst(call'.ev[Len(call'.ev)]) = 12
                   => /\ \A s \in Subjects : csubs'[s] = 0
                      /\ cfg.Name \notin DOMAIN jsa']_vars

\* C28 witness: a clustered stream with a source and a consumer has been
\* deleted with an advisory.
C28_DeletedWithAdvisory ==
    /\ call.op = "stop"
    /\ Len(call.ev) = 12
    /\ call.ev[2].seq > 0
    /\ call.ev[12].op = "store.Delete"

\* The step applies the log entry at hand.
ApplyStep == inbound.kind = "entry" /\ call'.op = "apply"

\* C30: in clustered mode, when an applied entry's proposed sequence p equals
\* lseq + clfs before it is processed, lseq + clfs is p + 1 afterwards,
\* whatever the outcome, so that the entry proposed next is not taken for a
\* sequence mismatch.
C30_AlignedAfterApply ==
    [][ApplyStep /\ inbound.sseq = lseq + clfs => lseq' + clfs' = inbound.sseq + 1]_vars

\* C30, for every outcome but a failure of the store.
C30_AlignedUnlessStoreFails ==
    [][ApplyStep /\ inbound.sseq = lseq + clfs /\ ~StoreFailed(call'.ev)
       => lseq' + clfs' = inbound.sseq + 1]_vars

\* C30: the entry proposed right after one whose append failed has been
\* rejected as a sequence mismatch.
C30_NextEntryMismatch ==
    /\ call.op = "apply"
    /\ call.err = "errLastSeqMismatch"
    /\ clseq - 1 = lseq + clfs + 1

\* The step is the return of a purge() that met no error.
PurgeDone == purging.pc = "store" /\ call'.op = "purge" /\ call'.err = ""

\* Every consumer noted when the purge began is told once, with the store's
\* first sequence after the purge, and no other consumer is.
PurgeTold ==
    /\ \A o \in purging.obs :
          Cardinality({i \in 1 .. Len(call'.ev) :
                          call'.ev[i].op = "notify" /\ call'.ev[i].who = o.name}) = 1
    /\ \A i \in 1 .. Len(call'.ev) :
          call'.ev[i].op = "notify"
          => /\ call'.ev[i].seq = store'.FirstSeq
             /\ \E o \in purging.obs : o.name = call'.ev[i].who

\* C25: a successful purge leaves the store without messages and the dedup
\* map empty, and calls purge(first_seq) exactly once on every consumer that
\* was attached when the purge started, first_seq being the store's first
\* sequence after the purge.
C25_PurgeClearsAll ==
    [][PurgeDone => store'.msgs = {} /\ ddmap' = << >> /\ PurgeTold]_vars

\* C25, the dedup map left aside.
C25_PurgeClearsStore == [][PurgeDone => store'.msgs = {} /\ PurgeTold]_vars

\* C25: a purge has returned without error, the store is empty, and the id
\* of a message it removed is in the dedup map.
C25_IdOutlivesMessage ==
    /\ call.op = "purge"
    /\ call.err = ""
    /\ store.msgs = {}
    /\ ddmap # << >>

\* The step is an update of a stream of the account; the stream, its config
\* before and the config the update was called with.
UpdateStep == call'.op = "updateStream"
Updated == call'.ev[1].who
Before == call'.ev[1].old
Asked == checkStreamCfg(call'.ev[1].new).cfg

\* The update asks for another value of a field that is fixed at creation.
ChangesFixed(fields) == \E f \in fields : Asked[f] # Before[f]

\* Such an update is refused, a refused update changes nothing, and the
\* fields are what they were.
FieldsKept(fields) ==
    /\ ChangesFixed(fields) => call'.err # ""
    /\ call'.err # "" => jsa' = jsa
    /\ \A f \in fields : jsa'[Updated].cfg[f] = Before[f]

\* C21: over any sequence of updates the storage type, the retention policy,
\* max_consumers, the replica count and the template of a stream stay what
\* they were at creation: an update that would change one of them returns an
\* error and leaves config and subscriptions as they were.
C21_FixedAtCreation ==
    [][UpdateStep
       => FieldsKept({"Storage", "Retention", "MaxConsumers", "Replicas", "Template"})]_vars

\* C21, the replica count left aside.
C21_CheckedFieldsKept ==
    [][UpdateStep => FieldsKept({"Storage", "Retention", "MaxConsumers", "Template"})]_vars

\* C21: an update has returned without error and the stream has another
\* replica count than before.
C21_ReplicasChanged ==
    /\ call.op = "updateStream"
    /\ call.err = ""
    /\ jsa[call.ev[1].who].cfg.Replicas # call.ev[1].old.Replicas

\* The rules of a mirror: no subjects, no sources, no filter subject, not
\* both a start sequence and a start time.
MirrorRules(c) ==
    c.Mirror # NoMirror
    => /\ c.Subjects = {}
       /\ c.Sources = {}
       /\ c.Mirror.FilterSubject = ""
       /\ ~(c.Mirror.OptStartSeq > 0 /\ c.Mirror.OptStartTime > 0)

\* C22: after any sequence of successful creates and updates no stream's
\* config has a mirror together with subjects or sources, a mirror with a
\* filter subject or a mirror with both a start sequence and a start time.
C22_MirrorRulesKept == \A n \in DOMAIN jsa : MirrorRules(jsa[n].cfg)

\* C22, for creates: the config a stream is registered with obeys the rules.
C22_CreateChecksMirror ==
    [][call'.op = "addStream" /\ call'.ev[1].op = "jsa.streams"
       => MirrorRules(call'.ev[1].new)]_vars

\* C22: an update has returned without error on a mirror and has given it
\* subjects.
C22_MirrorGivenSubjects ==
    /\ call.op = "updateStream"
    /\ call.err = ""
    /\ MirrorRules(call.ev[1].old)
    /\ call.ev[1].old.Mirror # NoMirror
    /\ jsa[call.ev[1].who].cfg.Subjects # {}

\* addStream is called with a valid config whose name is taken.
NameTaken ==
    /\ call'.op = "addStream"
    /\ call'.ev[1].op = "return"
    /\ call'.ev[1].new.Name \in DOMAIN jsa

\* A call on a taken name leaves the registry alone and returns the stream
\* there is, or ErrJetStreamStreamAlreadyUsed when the configs differ.
ExistingReturned ==
    [][NameTaken
       => LET name == call'.ev[1].new.Name IN
          /\ jsa' = jsa
          /\ IF jsa[name].cfg = call'.ev[1].new
             THEN call'.err = "" /\ call'.ev[1].ret = jsa[name].id
             ELSE call'.err = "ErrJetStreamStreamAlreadyUsed" /\ call'.ev[1].ret = "nil"]_vars

\* A registered stream is not replaced by another under its name.
NeverReplaced ==
    [][\A n \in DOMAIN jsa \cap DOMAIN jsa' : jsa'[n].id = jsa[n].id]_vars

\* The stream a caller has made and is setting up is the one registered
\* under its name; store and send loop of a registered stream are set up
\* once, by the time its maker returns.
OneObject ==
    /\ \A c \in Callers :
          adds[c].pc = "created"
          => adds[c].name \in DOMAIN jsa /\ jsa[adds[c].name].id = c
    /\ \A n \in DOMAIN jsa :
          LET making == \E c \in Callers : adds[c].pc = "created" /\ adds[c].name = n
          IN  /\ jsa[n].stores = (IF making THEN 0 ELSE 1)
              /\ jsa[n].pumps = jsa[n].stores

\* C23: there is at most one stream per account and name: addStream on a
\* name that is taken returns the stream there is, unchanged, when the
\* normalized configs are equal, and fails with 'stream already used'
\* otherwise, without changing it; of concurrent addStream calls for one name
\* only one registers a stream and sets up its store and its send loop.
C23_OneStreamPerName == ExistingReturned /\ NeverReplaced /\ []OneObject

\* C23 witness: a caller has been returned the stream another caller has
\* registered and is still setting up.
C23_ReturnedWhileSetUp ==
    /\ call.op = "addStream"
    /\ call.err = ""
    /\ call.ev[1].op = "return"
    /\ \E c \in Callers :
          /\ call.ev[1].ret = c
          /\ call.ev[1].who # c
          /\ adds[c].pc = "created"
          /\ adds[c].name = call.ev[1].new.Name

\* No subject of one registered stream collides with one of another.
Disjoint(reg) ==
    \A n, m \in DOMAIN reg :
       n # m => \A x \in reg[n].cfg.Subjects, y \in reg[m].cfg.Subjects :
                   ~SubjectsCollide(x, y)

\* C24: after any sequence of successful addStream, update and stop calls in
\* an account no subject of one registered stream collides with a subject of
\* another.
C24_SubjectsDisjoint == Disjoint(jsa)

\* C24, for addStream and stop.
C24_AddAndStopKeepDisjoint ==
    [][call'.op \in {"addStream", "addStreamSetup", "stopStream"} /\ Disjoint(jsa)
       => Disjoint(jsa')]_vars

\* C24: an update has returned without error and has given a stream a subject
\* that collides with one of another stream.
C24_UpdateCollides ==
    /\ call.op = "updateStream"
    /\ call.err = ""
    /\ ~Disjoint(jsa)
    /\ Disjoint([n \in DOMAIN jsa |->
                   IF n = call.ev[1].who THEN [cfg |-> call.ev[1].old] ELSE jsa[n]])

\* ------------------------------------------------------------------- C38
\* The consumers of the map that have a filter subject.
Filtered == {o \in consumers : o.FilterSubject # ""}

\* C38: in every reachable state, after any sequence of setConsumer,
\* removeConsumer and stop calls, numFilter is the number of consumers in the
\* map that have a non-empty filter subject, and is never negative.
C38_NumFilterCounts == numFilter = Cardinality(Filtered) /\ numFilter >= 0

\* C38, the part that holds: setConsumer of a new name and removeConsumer of
\* a consumer of the map keep the count right.
C38_KeptBySetAndRemove ==
    [][(call'.op # "stop" /\ numFilter = Cardinality(Filtered))
         => (numFilter' = Cardinality(Filtered'))]_vars

\* A stream stopped while it had a filtered consumer: the map is empty, the
\* count is not.
C38_CountLeftByStop == call.op = "stop" /\ consumers = {} /\ numFilter > 0

\* ------------------------------------------------------------------- C32
\* The run skipped the inbound message, which carries an id.
SkippedWithId == IngestStep /\ Has(call'.ev, "SkipMsg") /\ inbound.m.msgId # ""

\* C32: when a message carrying a msg-id is skipped under Interest retention,
\* the id is recorded in the dedup window together with the skipped sequence
\* (the one the ack of the skip carries), so that a later duplicate of the id
\* is answered with that sequence.
C32_SkipRecordsSequence ==
    [][SkippedWithId =>
         /\ inbound.m.msgId \in DOMAIN ddmap'
         /\ ddmap'[inbound.m.msgId].seq = lseq'
         /\ \A i \in 1 .. Len(PubAcks(call'.ev)) :
               PubAcks(call'.ev)[i].seq = ddmap'[inbound.m.msgId].seq]_vars

\* C32, the part that holds: the id of a skipped message is recorded, and the
\* ack of the skip carries the skipped sequence.
C32_SkipRecordsId ==
    [][SkippedWithId =>
         /\ inbound.m.msgId \in DOMAIN ddmap'
         /\ \A i \in 1 .. Len(PubAcks(call'.ev)) : PubAcks(call'.ev)[i].seq = lseq']_vars

\* The duplicate of a skipped message is answered with sequence 0.
C32_DuplicateOfSkipAnsweredZero ==
    /\ call.op = "publish"
    /\ call.err = "msgid is duplicate"
    /\ cfg.Retention = InterestPolicy
    /\ PubAcks(call.ev) = <<PubAckMsg("r", 0, TRUE)>>
    /\ lseq > 0

\* ------------------------------------------------------------------- C33
\* What C33 says of a run of the pipeline: an accepted message (stored or
\* skipped, and kept) leaves its id, or none, in lmsgId; any other run
\* leaves lmsgId as it was.
LastIdFollowsAccepts ==
    IF AcceptedAsNew(call') THEN lmsgId' = inbound.m.msgId ELSE lmsgId' = lmsgId

\* C33: lmsgId is the Nats-Msg-Id of the most recently accepted message
\* (stored or skipped), empty if there is none or it had no id; a publish that
\* is rejected (validation failure, store failure, removal because account
\* limits were exceeded) never changes lmsgId.
C33_LastIdOfAccepted ==
    [][IngestStep => LastIdFollowsAccepts]_vars

\* C33, the part that holds: the same for every run that did not remove the
\* message for exceeded limits.
C33_LastIdUnlessLimits ==
    [][(IngestStep /\ ~Has(call'.ev, "RemoveMsg")) => LastIdFollowsAccepts]_vars

\* A publish removed for exceeded limits has left its id in lmsgId: the id
\* was never accepted.
C33_RemovedIdIsLast ==
    /\ call.op = "publish"
    /\ Has(call.ev, "RemoveMsg")
    /\ lmsgId # ""
    /\ accepted[lmsgId] = Never
    /\ mu = "unlocked"

\* ------------------------------------------------------------------- C35
\* Every producer is outside the handler.
AllReturned == \A p \in Producers : pubs[p].pc \in {"idle", "done"}

\* C35: when two publishes carrying the same non-empty Nats-Msg-Id are
\* processed concurrently by different producers on a standalone leader, at
\* most one of them is stored and the other is answered as a duplicate of it.
C35_OneStoredPerId ==
    \A p, q \in Producers :
        (/\ p # q
         /\ pubs[p].pc = "done" /\ pubs[q].pc = "done"
         /\ pubs[p].m.msgId # "" /\ pubs[p].m.msgId = pubs[q].m.msgId
         /\ pubs[p].seq > 0)
        => pubs[q].seq = 0 /\ pubs[q].err = "msgid is duplicate"

\* C35, the part that holds: a publish that enters the handler after the id
\* of a stored one was recorded is answered as a duplicate of it.
C35_DuplicateOnceRecorded ==
    [][\A p \in Producers, m \in IdMsgs :
          (storeAssume(p, m) /\ checkMsgId(Cur, getMsgId(m)))
          => /\ pubs'[p].err = "msgid is duplicate"
             /\ store' = store
             /\ PubAcks(call'.ev) = <<PubAckMsg(m.reply, ddmap[getMsgId(m)].seq, TRUE)>>]_vars

\* Both publishes of one id were stored and acked as new.
C35_BothStored ==
    /\ pubs["p1"].pc = "done" /\ pubs["p2"].pc = "done"
    /\ pubs["p1"].m.msgId = "A" /\ pubs["p2"].m.msgId = "A"
    /\ pubs["p1"].ack = 1 /\ pubs["p2"].ack = 2
    /\ store.msgs = {1, 2}

\* ------------------------------------------------------------------- C36
\* No two publishes were acked as stored at the same sequence, and a success
\* ack carries the sequence its message is stored at.
AcksDistinctAndTrue ==
    /\ \A p, q \in Producers : (pubs[p].ack > 0 /\ pubs[p].ack = pubs[q].ack) => p = q
    /\ \A p \in Producers :
          pubs[p].ack > 0 => pubs[p].ack = pubs[p].seq /\ pubs[p].seq \in store.msgs

\* C36: under concurrent publishes from different producers, the mutex
\* released around the store call, no two accepted publishes receive the same
\* sequence, each success ack carries the sequence at which its message was
\* stored, and once all publishes in flight have completed lseq equals the
\* store's last sequence, also when a store call fails and rolls lseq and
\* lmsgId back.
C36_SequencesUnderConcurrency ==
    AcksDistinctAndTrue /\ (AllReturned => lseq = store.LastSeq)

\* C36, the part that holds for two publishes.
C36_AcksDistinctAndTrue == AcksDistinctAndTrue

\* C36, the part that holds: the same, and lseq is the store's last sequence
\* when every publish has returned, if only no store call failed while
\* another publish was between its unlock and its return.
C36_AlignedWithoutOverlappedFailure ==
    [][(\A p \in Producers :
          (storeReturn(p) /\ pubs[p].pc = "failed")
          => \A q \in Producers \ {p} : pubs[q].pc \in {"idle", "done"})
       => ((AllReturned /\ lseq = store.LastSeq) =>
             (AllReturned' => lseq' = store'.LastSeq))]_vars

\* Both store calls failed, the first rollback coming before the second: the
\* store is empty and lseq is 1.
C36_LseqAheadOfStore ==
    /\ \A p \in Producers : pubs[p].pc = "done" /\ pubs[p].err = "store error"
    /\ store = EmptyStore
    /\ lseq = 1

\* ------------------------------------------------------------------- C39
\* The step is the timeout of a goroutine awaiting a create response, on a
\* stream that was told to follow, or stopped, and not told to lead since.
TimeoutWhileFollowing == call'.op = "createTimeout" /\ ~active

\* C39: after setLeader(false) or stop, no mirror or source upstream consumer
\* is installed again until setLeader(true) is called: a create-consumer
\* timeout retry that fires after the step-down creates no new delivery
\* subscription, sends no create request, and leaves the mirror and source
\* state as the step-down left it.
C39_NoInstallWhileFollowing ==
    [][TimeoutWhileFollowing =>
         /\ mirror' = mirror
         /\ source' = source
         /\ Len(creates') = Len(creates)
         /\ CreateRequests(call'.ev) = <<>>]_vars

\* C39, the part that holds: after a stop the timeout of a mirror's
\* goroutine installs and sends nothing, and that of a source's goroutine
\* sends no create request.
C39_NoCreateAfterStop ==
    [][(call'.op = "createTimeout" /\ ~client) =>
         /\ mirror' = mirror
         /\ CreateRequests(call'.ev) = <<>>
         /\ Len(creates') = Len(creates)
         /\ ~source'.live]_vars

\* A mirror told to follow has a delivery subscription again, installed by
\* the timeout of a goroutine.
C39_InstalledWhileFollowing ==
    /\ call.op = "createTimeout"
    /\ ~active
    /\ mirror.set /\ mirror.sub > 0
    /\ CreateRequests(call.ev) # <<>>

\* ------------------------------------------------------------------- C37
\* The inbound delivery is on a subscription that is no longer the current
\* one of its upstream: the mirror state is gone or holds another
\* subscription (or none), the source's subscription was replaced or was
\* dropped by a step-down or a stop.
NotCurrent ==
    \/ inbound.kind = "mirror" /\ (~mirror.set \/ inbound.sub # mirror.sub)
    \/ inbound.kind = "source" /\ (~source.set \/ inbound.sub # source.sub \/ ~source.live)

\* The step is the run of the mirror's or the source's delivery callback.
DeliveryStep ==
    /\ inbound.kind \in {"mirror", "source"}
    /\ call'.op \in {"mirror", "ignored", "source"}

\* C37: a mirror or source delivery arriving on a subscription that is no
\* longer the current one for that upstream (after a reset, a cancel, a leader
\* step-down or a stop) is ignored: no store write, no update of lag,
\* last-activity, sseq or dseq, no consumer reset and no upstream ack.
C37_StaleDeliveryIgnored ==
    [][(DeliveryStep /\ NotCurrent) =>
         /\ store' = store /\ lseq' = lseq
         /\ mirror' = mirror
         /\ source' = source
         /\ sendq' = sendq
         /\ call'.ev = << >>]_vars

\* C37, the part that holds: a mirror delivery on a subscription that is not
\* the mirror's current one, and a source delivery on a subscription that is
\* not the one the sourceInfo holds, change nothing and send nothing.
C37_OtherSubscriptionIgnored ==
    [][(DeliveryStep /\ (inbound.kind = "mirror" => NotCurrent)
                     /\ (inbound.kind = "source" => (~source.set \/ inbound.sub # source.sub))) =>
         /\ store' = store /\ lseq' = lseq
         /\ mirror' = mirror
         /\ source' = source
         /\ sendq' = sendq
         /\ call'.ev = << >>]_vars

\* A source delivery handled after the stream dropped the subscription was
\* counted and acknowledged.
C37_CountedAfterUnsubscribe ==
    /\ call.op = "source"
    /\ source.set /\ ~source.live
    /\ source.dseq = 1
    /\ \E i \in 1 .. Len(Sends(call.ev)) : Sends(call.ev)[i].kind = "ack"

\* ------------------------------------------------------------------- C34
\* The mirror's consumer was set up on a store that is not empty and has
\* delivered nothing yet.
SetUpOnNonEmpty == mirror.set /\ mirror.sub > 0 /\ upstream.start >= 1 /\ upstream.sseq = 0

\* Every message of the upstream has been delivered and ingested: the last
\* delivery was tracked with no message pending and was stored.
CaughtUp ==
    /\ mirror.set /\ mirror.lag = 0 /\ mirror.last # 0
    /\ upstream.sseq = MaxUpSeq
    /\ call.op = "mirror" /\ call.err = ""

\* The run of the mirror callback stores a message the store holds already:
\* the delivery's upstream sequence is not beyond the store's last sequence.
StoresAgain == MirrorStep /\ Stored(call'.ev) # {} /\ inbound.sseq <= store.LastSeq

\* C34: after a mirror consumer reset or a leader restart on a mirror whose
\* store is non-empty, with the upstream consumer delivering in order from
\* the requested start sequence, the mirror eventually ingests every later
\* upstream message (lag reaches 0): no upstream message is stored a second
\* time and the mirror does not reset its consumer forever.
C34_MirrorCatchesUp ==
    /\ SetUpOnNonEmpty ~> CaughtUp
    /\ [][~StoresAgain]_vars

\* C34, the part that holds: a mirror whose consumer was set up on an empty
\* store and is never set up again stores each delivery at its upstream
\* sequence and rejects none.
C34_FirstSetupInOrder ==
    [][(MirrorStep /\ upstream.start = 0)
         => /\ call'.err = ""
            /\ store'.LastSeq = inbound.sseq
            /\ store'.msgs = store.msgs \cup {inbound.sseq}]_vars

\* The first delivery after a setup on a store holding one message was
\* stored again, at sequence 2.
C34_StoredTwice ==
    /\ call.op = "mirror" /\ call.err = ""
    /\ upstream.start = 1 /\ upstream.sseq = 1
    /\ store.msgs = {1, 2}

\* The first delivery after a setup on a store holding two messages was
\* rejected for its sequence, and the consumer set up once more from the
\* same sequence.
C34_ResetAgain ==
    /\ call.op = "mirror" /\ call.err = "errLastSeqMismatch"
    /\ upstream.start = 2 /\ upstream.sseq = 0
    /\ store.msgs = {1, 2}
    /\ Len(CreateRequests(call.ev)) = 1

\* ------------------------------------------------------------------- C31
\* The log has been applied a second time, from the start, to its end.
Replayed == rlog.ref # << >> /\ rlog.at = Len(rlog.log)

\* C31: in clustered mode, applying the same consensus log (the same entries
\* with their proposed sequences and timestamps, in the same order) from the
\* start a second time on an empty store yields the same lseq, the same
\* lmsgId and the same store last sequence, whatever the wall-clock times at
\* which the entries are applied and the consumers attached at the time.
C31_ReplayReproduces == Replayed => Outcome = rlog.ref[1]

\* C31, the part that holds: when no entry carries a Nats-Msg-Id the second
\* application reproduces the first, whatever the times and the consumers.
C31_ReplayWithoutIds ==
    (Replayed /\ \A i \in 1 .. Len(rlog.log) : rlog.log[i].m.msgId = "")
        => Outcome = rlog.ref[1]

\* Two entries with the same id were both stored by the first application,
\* the window having passed between them, and the second application took
\* the later one for a duplicate.
C31_DuplicateOnReplay ==
    /\ Replayed
    /\ Len(rlog.log) = 2
    /\ rlog.log[1].m.msgId = "A" /\ rlog.log[2].m.msgId = "A"
    /\ rlog.ref[1].lseq = 2
    /\ lseq = 1 /\ clfs = 1
    /\ call.op = "apply" /\ call.err # ""

\* ------------------------------------------------------------------- C40
\* A stop holds the mutex.
StopHoldsMutex == stopping.pc = "sending" /\ mu = "locked"

\* A stop holds the mutex and waits to send on the full queue, whose send
\* loop has returned: nothing will make room.
BlockedForGood ==
    /\ StopHoldsMutex
    /\ stopping.todo # << >>
    /\ Len(sendq) = msetSendQSize
    /\ pump = "exited"

\* C40: enqueues on the bounded send queue performed while holding the stream
\* mutex never block forever: stop always terminates and releases the mutex,
\* including when the queue is full and the pump has already exited.
C40_StopTerminates ==
    /\ StopHoldsMutex ~> ~StopHoldsMutex
    /\ [](~BlockedForGood)

\* C40, the part that holds: a stop that finds room on the queue for all it
\* has to send returns and releases the mutex.
C40_StopWithRoomTerminates ==
    (StopHoldsMutex /\ Len(sendq) + Len(stopping.todo) <= msetSendQSize) ~> ~StopHoldsMutex

\* A delete of the stream has enqueued its advisory on the last free place
\* and waits, the mutex held, to enqueue the sentinel.
C40_BlockedOnSentinel ==
    /\ BlockedForGood
    /\ Len(stopping.todo) = 1
    /\ sentinel(stopping.todo[1])
    /\ sendq[msetSendQSize].kind = "advisory"

====
